---- MODULE Spec2Model ----
(***************************************************************************)
(* Model of the OpenAIStream conversation service of gravityai-dev/openai: *)
(* the stream-event reducer (streaming/responsesApiHandler.ts), the        *)
(* per-iteration stream fold (conversation/streamHandler.ts processStream),*)
(* the tool executor (mcp/toolExecution.ts), the tool handler              *)
(* (conversation/toolHandler.ts), the conversation loop                    *)
(* (conversation/conversationLoop.ts runConversationLoop) and the callback *)
(* that runs it (streaming.ts streamCompletionCallback).  Spec is the      *)
(* conversation; TraceSpec is one executeToolCall run with a trace         *)
(* context; EmitterSpec is one TextEmitter or ReasoningEmitter called      *)
(* directly; ReducerSpec is one accumulator folded over any sequence of    *)
(* events; PairSpec is two conversations run together beside each of them  *)
(* run alone; ExecutorSpec is OpenAIStreamExecutor.handleEvent (the node   *)
(* executor) called with a sequence of events, each call with the state    *)
(* the previous call returned.                                             *)
(*                                                                         *)
(* JavaScript values are written as strings in source notation             *)
(* ("{q:'x'}"), JSON texts as the text itself ("{\"q\":\"x\"}"); the two   *)
(* are related only through JSONparse and JSONstringify.  The empty string *)
(* stands for an absent (undefined) field of an event or a record.         *)
(***************************************************************************)
EXTENDS Integers, Sequences, FiniteSets, TLC

VARIABLES
  maxIterationsCfg,    \* config.maxIterations (0 = not supplied)
  hasMcpService,       \* whether config.mcpService was supplied
  pc,                  \* position of runConversationLoop
  iteration,           \* the loop counter
  streamState,         \* the accumulator (StreamState)
  previousResponseId,  \* the id saved for chaining ("" = null)
  inputItems,          \* the transcript
  streamParams,        \* the request parameters object
  allToolCalls,        \* MCPResult[] gathered over the conversation
  chunks,              \* events the open stream has still to deliver
  promises,            \* the executeToolCall promises of the current batch
  invoked,             \* registry invocations, in order: [id, name, input]
  sink,                \* payloads pushed to the output sink, in order
  textChars,           \* TextEmitter.charsSinceLastEmit
  reasoningChars,      \* ReasoningEmitter.charsSinceLastEmit
  settled,             \* registry promises settled, in order: [id, outcome]
  opened,              \* the streams opened so far, one script per iteration
  thrown,              \* the error runConversationLoop rejected with ("" = none)
  result,              \* the ConversationResult once returned
  callback,            \* position of streamCompletionCallback
  emitter,             \* a TextEmitter or ReasoningEmitter driven on its own
  traced,              \* one executeToolCall run with a trace context
  folded,              \* an accumulator folded over events on its own
  concurrent,          \* two conversations run together, and each one alone
  executor             \* the node executor called with a sequence of events

\* the state of runConversationLoop
loopVars == <<maxIterationsCfg, hasMcpService, pc, iteration, streamState,
              previousResponseId, inputItems, streamParams, allToolCalls, chunks,
              promises, invoked, settled, opened, thrown, result>>

\* the output sink and the two emitters the callback hands to the loop
sinkVars == <<sink, textChars, reasoningChars>>

\* the objects exercised on their own
unitVars == <<emitter, traced, folded, concurrent, executor>>

vars == <<loopVars, sinkVars, callback, unitVars>>

----------------------------------------------------------------------------
(* Bounds of the model and constants of the program *)

\* largest explicit config.maxIterations tried
MaxConfigIterations == 3

\* the iterations (from the first) in which every stream and tool outcome is tried
RichIterations == 1

DefaultMaxIterations == 10

TEXT_EMIT_INTERVAL == 300

REASONING_EMIT_INTERVAL == 150

DATA_TOOLS == {"searchKnowledgeBase", "getChunksByQuery", "getActiveMCPs"}

\* the names the supplied registry (mcpService) has an entry for
RegistryNames == {"search", "searchKnowledgeBase"}

ToolNames == {"search", "searchKnowledgeBase", "getActiveMCPs", "unknownTool"}

----------------------------------------------------------------------------
(* JSON *)

SyntaxError == "SyntaxError"

TypeError == "TypeError"

Undefined == "undefined"

ArgsQX == "{\"q\":\"x\"}"

\* JSON.parse: the value a text denotes, or SyntaxError when it throws
JSONparse(text) ==
  CASE text = "{\"q\":\"x\"}" -> "{q:'x'}"
    [] text = "{}" -> "{}"
    [] text = "{\"hits\":[]}" -> "{hits:[]}"
    [] text = "{\"error\":\"Tool not found\"}" -> "{error:'Tool not found'}"
    [] text = "{\"error\":\"boom\"}" -> "{error:'boom'}"
    [] OTHER -> SyntaxError

\* JSON.stringify: undefined has no JSON text (the call returns undefined),
\* and a property whose value is undefined is left out
JSONstringify(value) ==
  CASE value = "{q:'x'}" -> "{\"q\":\"x\"}"
    [] value = "{}" -> "{}"
    [] value = "{hits:[]}" -> "{\"hits\":[]}"
    [] value = "{error:'Tool not found'}" -> "{\"error\":\"Tool not found\"}"
    [] value = "{error:'boom'}" -> "{\"error\":\"boom\"}"
    [] value = "{error:undefined}" -> "{}"
    [] OTHER -> Undefined

----------------------------------------------------------------------------
(* Stream events *)

NoEvent ==
  [type |-> "", delta |-> "", itemType |-> "", itemId |-> "", callId |-> "",
   itemName |-> "", item_id |-> "", name |-> "", arguments |-> "",
   responseId |-> "", usage |-> "", refusal |-> "", reason |-> ""]

TextDelta(d) == [NoEvent EXCEPT !.type = "response.output_text.delta", !.delta = d]

ReasoningDelta(d) ==
  [NoEvent EXCEPT !.type = "response.reasoning_summary_text.delta", !.delta = d]

\* a delta of the internal reasoning channel
InternalReasoningDelta(d) ==
  [NoEvent EXCEPT !.type = "response.reasoning_text.delta", !.delta = d]

Created(rid) == [NoEvent EXCEPT !.type = "response.created", !.responseId = rid]

Completed(rid, u) ==
  [NoEvent EXCEPT !.type = "response.completed", !.responseId = rid, !.usage = u]

ItemAdded(itemId, callId, n) ==
  [NoEvent EXCEPT !.type = "response.output_item.added", !.itemType = "function_call",
                  !.itemId = itemId, !.callId = callId, !.itemName = n]

ItemDone(itemId, callId, n) ==
  [NoEvent EXCEPT !.type = "response.output_item.done", !.itemType = "function_call",
                  !.itemId = itemId, !.callId = callId, !.itemName = n]

ArgsDelta(itemId, d) ==
  [NoEvent EXCEPT !.type = "response.function_call_arguments.delta",
                  !.item_id = itemId, !.delta = d]

ArgsDone(itemId, a) ==
  [NoEvent EXCEPT !.type = "response.function_call_arguments.done",
                  !.item_id = itemId, !.arguments = a]

RefusalDelta(d) == [NoEvent EXCEPT !.type = "response.refusal.delta", !.delta = d]

RefusalDone(r) == [NoEvent EXCEPT !.type = "response.refusal.done", !.refusal = r]

Failed == [NoEvent EXCEPT !.type = "response.failed"]

ErrorEvent == [NoEvent EXCEPT !.type = "error"]

----------------------------------------------------------------------------
(* streaming/streamProcessor.ts and streaming/responsesApiHandler.ts *)

\* (mutant) the usage is not carried over
initializeStreamStateNoUsage(previousFullText, previousReasoning, previousUsage) ==
  [fullText |-> previousFullText, iterationText |-> "",
   reasoning |-> previousReasoning, toolCalls |-> <<>>, outputItems |-> <<>>,
   responseId |-> "", usage |-> "{}", finishReason |-> ""]

\* (mutant) every iteration starts from an empty text
initializeStreamStateFresh(previousFullText, previousReasoning, previousUsage) ==
  [fullText |-> "", iterationText |-> "",
   reasoning |-> previousReasoning, toolCalls |-> <<>>, outputItems |-> <<>>,
   responseId |-> "", usage |-> previousUsage, finishReason |-> ""]

initializeStreamState(previousFullText, previousReasoning, previousUsage) ==
  [fullText |-> previousFullText, iterationText |-> "",
   reasoning |-> previousReasoning, toolCalls |-> <<>>, outputItems |-> <<>>,
   responseId |-> "", usage |-> previousUsage, finishReason |-> ""]

\* (mutant) the call is looked up by its call id
FindById(toolCalls, item_id) ==
  LET hits == {i \in 1..Len(toolCalls) : toolCalls[i].id = item_id}
  IN IF hits = {} THEN 0 ELSE CHOOSE i \in hits : \A j \in hits : i <= j

\* toolCalls.find((tc) => tc.itemId === chunk.item_id): the first match, 0 if none
FindByItemId(toolCalls, item_id) ==
  LET hits == {i \in 1..Len(toolCalls) : toolCalls[i].itemId = item_id}
  IN IF hits = {} THEN 0 ELSE CHOOSE i \in hits : \A j \in hits : i <= j

\* (mutant) the usage payloads are merged
SumUsage(previous, payload) ==
  IF payload # "" THEN previous \o "+" \o payload ELSE previous

\* if (chunk.response?.usage) state.usage = chunk.response.usage
ReplaceUsage(previous, payload) == IF payload # "" THEN payload ELSE previous

\* (mutant) the delta is put in front
PrependDelta(text, delta) == delta \o text

\* state.fullText += chunk.delta
AppendDelta(text, delta) == text \o delta

\* (mutant) the final arguments are appended to the fragments
ArgumentsAppended(previous, arguments) == previous \o arguments

\* existingCall.function.arguments = chunk.arguments
ArgumentsDone(previous, arguments) == arguments

\* (mutant) the refusal text is appended without a marker
RefusalUnmarked(text) == text

\* `[REFUSAL: ${text}]`
RefusalMarker(text) == "[REFUSAL: " \o text \o "]"

processResponsesApiEvent(chunk, state) ==
  CASE chunk.type = "response.output_text.delta" ->
         IF chunk.delta # ""
         THEN [state EXCEPT !.iterationText = AppendDelta(@, chunk.delta),
                            !.fullText = AppendDelta(@, chunk.delta)]
         ELSE state
    [] chunk.type = "response.reasoning_summary_text.delta" ->
         IF chunk.delta # ""
         THEN [state EXCEPT !.reasoning = @ \o chunk.delta]
         ELSE state
    [] chunk.type = "response.output_item.added" ->
         IF chunk.itemType = "function_call"
         THEN [state EXCEPT !.toolCalls =
                 Append(@, [id |-> chunk.callId, itemId |-> chunk.itemId,
                            type |-> "function", name |-> chunk.itemName,
                            arguments |-> ""])]
         ELSE state
    [] chunk.type = "response.function_call_arguments.delta" ->
         LET i == FindByItemId(state.toolCalls, chunk.item_id)
         IN IF chunk.delta # "" /\ chunk.item_id # "" /\ i # 0
            THEN [state EXCEPT !.toolCalls[i].arguments = @ \o chunk.delta]
            ELSE state
    [] chunk.type = "response.function_call_arguments.done" ->
         LET i == FindByItemId(state.toolCalls, chunk.item_id)
         IN IF chunk.item_id # "" /\ i # 0
            THEN [state EXCEPT
                    !.toolCalls[i].name = IF chunk.name # "" THEN chunk.name ELSE @,
                    !.toolCalls[i].arguments = ArgumentsDone(@, chunk.arguments)]
            ELSE state
    [] chunk.type = "response.created" ->
         IF chunk.responseId # ""
         THEN [state EXCEPT !.responseId = chunk.responseId]
         ELSE state
    [] chunk.type = "response.completed" ->
         [state EXCEPT
            !.finishReason = "completed",
            !.usage = ReplaceUsage(@, chunk.usage),
            !.responseId = IF chunk.responseId # "" /\ @ = ""
                           THEN chunk.responseId ELSE @]
    [] chunk.type = "response.failed" -> [state EXCEPT !.finishReason = "error"]
    [] chunk.type = "response.incomplete" ->
         [state EXCEPT !.finishReason =
            IF chunk.reason # "" THEN chunk.reason ELSE "incomplete"]
    [] chunk.type = "response.output_item.done" ->
         IF chunk.itemType # ""
         THEN [state EXCEPT !.outputItems =
                 Append(@, [type |-> chunk.itemType, id |-> chunk.itemId,
                            call_id |-> chunk.callId, name |-> chunk.itemName])]
         ELSE state
    [] chunk.type = "response.refusal.delta" ->
         IF chunk.delta # ""
         THEN [state EXCEPT !.fullText = @ \o RefusalMarker(chunk.delta)]
         ELSE state
    [] chunk.type = "response.refusal.done" ->
         IF chunk.refusal # ""
         THEN [state EXCEPT !.fullText = @ \o RefusalMarker(chunk.refusal),
                            !.finishReason = "refused"]
         ELSE state
    [] chunk.type = "error" -> [state EXCEPT !.finishReason = "error"]
    [] OTHER -> state

\* (mutant) the internal reasoning channel accumulates as well
processStreamChunkVerbose(chunk, state) ==
  IF chunk.type = "response.reasoning_text.delta"
  THEN [state EXCEPT !.reasoning = @ \o chunk.delta]
  ELSE IF chunk.type # "" THEN processResponsesApiEvent(chunk, state) ELSE state

\* (mutant) an event the switch has no case for marks the accumulator
processStreamChunkMarking(chunk, state) ==
  IF chunk.type \in {"", "response.in_progress", "response.content_part.added",
                     "response.web_search_call.searching",
                     "response.output_text.annotation.added", "provider.future_event"}
  THEN [state EXCEPT !.finishReason = "unknown"]
  ELSE processResponsesApiEvent(chunk, state)

processStreamChunk(chunk, state) ==
  IF chunk.type # "" THEN processResponsesApiEvent(chunk, state) ELSE state

----------------------------------------------------------------------------
(* streaming/textEmitter.ts and streaming/reasoningEmitter.ts *)

ChunkPayload(v) ==
  [kind |-> "chunk", value |-> v, name |-> "", arguments |-> "", result |-> ""]

ReasoningPayload(v) ==
  [kind |-> "reasoning", value |-> v, name |-> "", arguments |-> "", result |-> ""]

McpResultPayload(r) ==
  [kind |-> "mcpResult", value |-> "", name |-> r.name, arguments |-> r.arguments,
   result |-> r.result]

\* (mutant) the characters beyond the interval stay on the counter
EmitIfNeededRemainder(count, newCharsCount, interval) ==
  IF count + newCharsCount >= interval
  THEN [count |-> (count + newCharsCount) % interval, emits |-> TRUE]
  ELSE [count |-> count + newCharsCount, emits |-> FALSE]

\* (mutant) the interval has to be exceeded
EmitIfNeededStrict(count, newCharsCount, interval) ==
  IF count + newCharsCount > interval
  THEN [count |-> 0, emits |-> TRUE]
  ELSE [count |-> count + newCharsCount, emits |-> FALSE]

\* emitIfNeeded: the counter after the call and whether the value was emitted
EmitIfNeeded(count, newCharsCount, interval) ==
  IF count + newCharsCount >= interval
  THEN [count |-> 0, emits |-> TRUE]
  ELSE [count |-> count + newCharsCount, emits |-> FALSE]

\* TextEmitter.emitFinal: if (this.charsSinceLastEmit > 0)
TextEmitterEmitFinal(count, fullText) ==
  IF count > 0
  THEN [count |-> 0, emits |-> TRUE]
  ELSE [count |-> count, emits |-> FALSE]

\* ReasoningEmitter.emitFinal: if (this.charsSinceLastEmit > 0 && fullReasoning)
ReasoningEmitterEmitFinal(count, fullReasoning) ==
  IF count > 0 /\ fullReasoning # ""
  THEN [count |-> 0, emits |-> TRUE]
  ELSE [count |-> count, emits |-> FALSE]

\* reset(): this.charsSinceLastEmit = 0
Reset(count) == [count |-> 0, emits |-> FALSE]

\* (mutant) the iteration's own text is handed to the emitter
EmittedIterationText(state) == state.iterationText

\* textEmitter.emitIfNeeded(streamState.fullText, newChars): the value handed over
EmittedText(state) == state.fullText

----------------------------------------------------------------------------
(* The streams the transport may deliver.  A script is the events of one     *)
(* response: the reasoning and text deltas, a refusal, the function calls    *)
(* (name and how their arguments arrive) and the events that end it.         *)

\* the events that end a response, the response id still to be filled in
Ends(u) == <<Completed("", u)>>

Script(reasoning, deltas, refusal, calls, ends) ==
  [reasoning |-> reasoning, deltas |-> deltas, refusal |-> refusal,
   calls |-> calls, ends |-> ends, anonymous |-> FALSE]

\* the same response delivered without a response id: no response.created
\* event, and a response.completed event that carries no id
Anonymous(script) == [script EXCEPT !.anonymous = TRUE]

HelloScript ==
  Script(<<>>, <<"Hel", "lo ", "world">>, "", <<>>, Ends("{total_tokens:12}"))

NoResultsScript == Script(<<>>, <<"No results.">>, "", <<>>, Ends("{total_tokens:30}"))

Call(n, a) == [name |-> n, args |-> a]

ToolScript(text, calls) == Script(<<>>, text, "", calls, Ends("{total_tokens:20}"))

\* s repeated n times
RECURSIVE Rep(_, _)
Rep(s, n) ==
  IF n = 0 THEN ""
  ELSE LET half == Rep(s, n \div 2)
       IN IF n % 2 = 0 THEN half \o half ELSE half \o half \o s

\* a text delta that alone reaches the text emitter's interval
LongText(s) == Rep(s, TEXT_EMIT_INTERVAL)

\* a reasoning delta that alone reaches the reasoning emitter's interval
LongReasoning(s) == Rep(s, REASONING_EMIT_INTERVAL)

\* reasoning and text long enough to be emitted, then a call of a data tool
LongToolScript ==
  Script(<<LongReasoning("r")>>, <<LongText("a")>>, "",
         <<Call("searchKnowledgeBase", "valid")>>, Ends("{total_tokens:20}"))

\* reasoning and text long enough to be emitted, and no call
LongAnswerScript ==
  Script(<<"Hm.", LongReasoning("s")>>, <<"So: ", LongText("b")>>, "", <<>>,
         Ends("{total_tokens:40}"))

\* the model refuses
RefusalScript == Script(<<>>, <<"Sorry.">>, "no", <<>>, Ends("{total_tokens:8}"))

\* the response fails after text, with no call
FailedScript == Script(<<>>, <<"Oops">>, "", <<>>, <<Failed>>)

\* an error event follows the call of a data tool
ErrorToolScript ==
  Script(<<>>, <<>>, "", <<Call("searchKnowledgeBase", "valid")>>, <<ErrorEvent>>)

\* two completed events with different usage payloads
TwoUsagesScript ==
  Script(<<>>, <<"Hi">>, "", <<>>,
         <<Completed("", "{total_tokens:5}"), Completed("", "{total_tokens:7}")>>)

\* a completed event that carries no usage
NoUsageScript == Script(<<>>, <<"Ok">>, "", <<>>, Ends(""))

\* a completed event with usage, then one without
UsageThenNoneScript ==
  Script(<<>>, <<"Hi">>, "", <<>>,
         <<Completed("", "{total_tokens:5}"), Completed("", "")>>)

\* a short reasoning summary, internal reasoning long enough to reach the
\* reasoning emitter's interval if it counted, then text
InternalReasoningScript ==
  Script(<<"Hm.">>, <<"Done.">>, "", <<>>,
         <<InternalReasoningDelta(LongReasoning("t")), Completed("", "{total_tokens:8}")>>)

\* one call to a data tool with well-formed arguments
DataToolScript == ToolScript(<<>>, <<Call("searchKnowledgeBase", "valid")>>)

\* how the arguments of a call arrive: "valid" (a fragment, then the done
\* event with the whole text), "partial" (a fragment and no done event),
\* "none" (no argument event at all)
ArgModes == {"valid", "partial", "none"}

RichScripts ==
  {HelloScript, NoResultsScript, LongToolScript, LongAnswerScript, RefusalScript,
   FailedScript, ErrorToolScript, TwoUsagesScript,
   NoUsageScript, UsageThenNoneScript, InternalReasoningScript}
    \cup {ToolScript(<<>>, <<Call(n, a)>>) : n \in ToolNames, a \in ArgModes}
    \cup {ToolScript(<<"Let me check.">>, <<Call("searchKnowledgeBase", "valid")>>),
          ToolScript(<<>>, <<Call("searchKnowledgeBase", "valid"),
                             Call("searchKnowledgeBase", "valid")>>),
          ToolScript(<<>>, <<Call("searchKnowledgeBase", "valid"),
                             Call("search", "valid")>>),
          ToolScript(<<>>, <<Call("getActiveMCPs", "valid"),
                             Call("searchKnowledgeBase", "none")>>)}

\* a call to a data tool in a response that carries no response id
AnonymousToolScript == Anonymous(DataToolScript)

PlainScripts ==
  {DataToolScript, NoResultsScript, LongAnswerScript, NoUsageScript}

\* every script in the first iterations, the response without an id in the
\* one after them, the plain scripts from then on
ScriptsAt(i) ==
  IF i <= RichIterations THEN RichScripts
  ELSE IF i = RichIterations + 1 THEN PlainScripts \cup {AnonymousToolScript}
  ELSE PlainScripts

ItemIdOf(k) == "fc_" \o ToString(k)

CallIdOf(i, k) == "call_" \o ToString(i) \o "_" \o ToString(k)

CallEvents(i, k, c) ==
  <<ItemAdded(ItemIdOf(k), CallIdOf(i, k), c.name)>>
    \o (IF c.args = "none" THEN <<>> ELSE <<ArgsDelta(ItemIdOf(k), "{\"q\":")>>)
    \o (IF c.args = "valid" THEN <<ArgsDone(ItemIdOf(k), ArgsQX)>> ELSE <<>>)
    \o <<ItemDone(ItemIdOf(k), CallIdOf(i, k), c.name)>>

RECURSIVE AllCallEvents(_, _, _)
AllCallEvents(i, k, calls) ==
  IF k > Len(calls) THEN <<>>
  ELSE CallEvents(i, k, calls[k]) \o AllCallEvents(i, k + 1, calls)

ResponseIdOf(i) == "resp_" \o ToString(i)

\* the events of the stream of iteration i
EventsOf(script, i) ==
  (IF script.anonymous THEN <<>> ELSE <<Created(ResponseIdOf(i))>>)
    \o [j \in 1..Len(script.reasoning) |-> ReasoningDelta(script.reasoning[j])]
    \o [j \in 1..Len(script.deltas) |-> TextDelta(script.deltas[j])]
    \o (IF script.refusal = "" THEN <<>>
        ELSE <<RefusalDelta(script.refusal), RefusalDone(script.refusal)>>)
    \o AllCallEvents(i, 1, script.calls)
    \o [j \in 1..Len(script.ends) |->
          IF script.ends[j].type = "response.completed" /\ ~script.anonymous
          THEN [script.ends[j] EXCEPT !.responseId = ResponseIdOf(i)]
          ELSE script.ends[j]]

----------------------------------------------------------------------------
(* mcp/toolExecution.ts *)

\* what the promise returned by a registry function may do
Resolve(v) == [kind |-> "resolve", value |-> v]

Reject(e) == [kind |-> "reject", value |-> e]

Outcomes ==
  {Resolve("{hits:[]}"), Resolve(Undefined),
   Reject("Error('boom')"), Reject("'boom'"), Reject(Undefined)}

PlainOutcomes == {Resolve("{hits:[]}")}

OutcomesAt(i) == IF i <= RichIterations THEN Outcomes ELSE PlainOutcomes

\* error.message: an Error carries its message, a string has no such property,
\* and reading a property of undefined throws a TypeError
ErrorMessage(e) ==
  CASE e = "Error('boom')" -> "boom"
    [] e = Undefined -> TypeError
    [] OTHER -> Undefined

\* try { toolArgs = JSON.parse(arguments) } catch { toolArgs = {} }
ToolArgs(toolCall) ==
  IF JSONparse(toolCall.arguments) = SyntaxError
  THEN "{}"
  ELSE JSONparse(toolCall.arguments)

\* (mutant) a missing tool yields an empty object
ToolNotFoundContentEmpty == "{}"

ToolNotFoundContent == JSONstringify("{error:'Tool not found'}")

ErrorContent(message) ==
  JSONstringify(IF message = Undefined
                THEN "{error:undefined}"
                ELSE "{error:'" \o message \o "'}")

Pending(toolCall) ==
  [status |-> "pending", tool_call_id |-> toolCall.id, role |-> "tool", content |-> ""]

Fulfilled(toolCall, content) ==
  [status |-> "fulfilled", tool_call_id |-> toolCall.id, role |-> "tool",
   content |-> content]

Rejected(toolCall, error) ==
  [status |-> "rejected", tool_call_id |-> toolCall.id, role |-> "tool",
   content |-> error]

\* executeToolCall up to its first await: the registry function is invoked
\* when the name has an entry, else the promise is fulfilled at once
executeToolCall(toolCall) ==
  IF toolCall.name \in RegistryNames
  THEN Pending(toolCall)
  ELSE Fulfilled(toolCall, ToolNotFoundContent)

\* executeToolCall from the await on, once the registry promise has settled
executeToolCallSettled(toolCall, outcome) ==
  IF outcome.kind = "resolve"
  THEN Fulfilled(toolCall, JSONstringify(outcome.value))
  ELSE IF ErrorMessage(outcome.value) = TypeError
       THEN Rejected(toolCall, TypeError)
       ELSE Fulfilled(toolCall, ErrorContent(ErrorMessage(outcome.value)))

\* (mutant) every call is handed to executeToolCall twice
executeToolCallsTwice(toolCalls) ==
  [i \in 1..(2 * Len(toolCalls)) |-> executeToolCall(toolCalls[((i - 1) % Len(toolCalls)) + 1])]

\* toolCalls.map((toolCall) => executeToolCall(...))
executeToolCallsInParallel(toolCalls) ==
  [i \in 1..Len(toolCalls) |-> executeToolCall(toolCalls[i])]

\* the registry invocations the map makes, in call order
RECURSIVE Invocations(_, _)
Invocations(toolCalls, i) ==
  IF i > Len(toolCalls) THEN <<>>
  ELSE (IF toolCalls[i].name \in RegistryNames
        THEN <<[id |-> toolCalls[i].id, name |-> toolCalls[i].name,
                input |-> ToolArgs(toolCalls[i])]>>
        ELSE <<>>)
       \o Invocations(toolCalls, i + 1)

----------------------------------------------------------------------------
(* conversation/toolHandler.ts *)

\* (mutant) no tool ever ends the conversation
hasWorkflowMCPNever(toolCalls) == FALSE

hasWorkflowMCP(toolCalls) ==
  \E i \in 1..Len(toolCalls) : toolCalls[i].name \notin DATA_TOOLS

\* (mutant) the content is passed on unparsed
parseToolResultRaw(content) == content

\* JSON.parse(content || "{}"), the content itself when that throws
parseToolResult(content) ==
  LET text == IF content = Undefined \/ content = "" THEN "{}" ELSE content
  IN IF JSONparse(text) = SyntaxError THEN content ELSE JSONparse(text)

\* whether building mcpResults throws: JSON.parse(toolCall.function.arguments)
McpResultsThrow(toolCalls) ==
  \E i \in 1..Len(toolCalls) : JSONparse(toolCalls[i].arguments) = SyntaxError

McpResults(toolCalls, toolResults) ==
  [i \in 1..Len(toolCalls) |->
     [name |-> toolCalls[i].name,
      arguments |-> JSONparse(toolCalls[i].arguments),
      result |-> parseToolResult(toolResults[i].content)]]

MessageItem(role, content) ==
  [type |-> "message", role |-> role, content |-> content, call_id |-> "",
   output |-> ""]

FunctionCallOutput(callId, output) ==
  [type |-> "function_call_output", role |-> "", content |-> "",
   call_id |-> callId, output |-> output]

\* (mutant) the outputs are correlated by the item id
ToolOutputsByItemId(toolCalls, toolResults) ==
  IF hasWorkflowMCP(toolCalls)
  THEN <<>>
  ELSE [i \in 1..Len(toolResults) |->
          FunctionCallOutput(toolCalls[i].itemId, toolResults[i].content)]

ToolOutputs(toolCalls, toolResults) ==
  IF hasWorkflowMCP(toolCalls)
  THEN <<>>
  ELSE [i \in 1..Len(toolResults) |->
          FunctionCallOutput(toolCalls[i].id, toolResults[i].content)]

----------------------------------------------------------------------------
(* conversation/conversationLoop.ts: runConversationLoop *)

\* const maxIterations = config.maxIterations || 10
maxIterations ==
  IF maxIterationsCfg = 0 THEN DefaultMaxIterations ELSE maxIterationsCfg

\* (mutant) the guard off by one
LoopGuardInclusive(i, max) == i <= max

\* while (iteration < maxIterations)
LoopGuard(i, max) == i < max

\* (mutant) the break is never taken
ConversationCompleteNever(state) == FALSE

\* if (streamState.toolCalls.length === 0) break
ConversationComplete(state) == Len(state.toolCalls) = 0

NoToolsDirective == "\n\nTools unavailable. Answer directly."

\* (mutant) the directive is not appended
AppendDirectiveDropped(instructions) == instructions

\* streamParams.instructions += "\n\nTools unavailable. Answer directly."
AppendDirective(instructions) == instructions \o NoToolsDirective

prepareIteration(params, items, i, prevId) ==
  [params EXCEPT
     !.input = items,
     !.previous_response_id = IF prevId # "" /\ i > 1 THEN prevId ELSE @,
     !.tool_choice = IF params.tools THEN "auto" ELSE @]

\* (mutant) toolCalls is always a list, empty when no call was executed
ConversationResultAlwaysList(state, calls) ==
  [fullText |-> state.fullText, reasoning |-> state.reasoning,
   usage |-> state.usage, finishReason |-> state.finishReason,
   toolCalls |-> [defined |-> TRUE, list |-> calls]]

ConversationResult(state, calls) ==
  [fullText |-> state.fullText, reasoning |-> state.reasoning,
   usage |-> state.usage, finishReason |-> state.finishReason,
   toolCalls |-> [defined |-> Len(calls) > 0, list |-> calls]]

NoResult ==
  [fullText |-> "", reasoning |-> "", usage |-> "", finishReason |-> "",
   toolCalls |-> [defined |-> FALSE, list |-> <<>>]]

\* no emitter is driven on its own
NoEmitter ==
  [kind |-> "", charsSinceLastEmit |-> 0, emitted |-> <<>>, value |-> "",
   op |-> "", arg |-> "", n |-> 0, calls |-> 0]

\* no executeToolCall is run on its own
NoTraced ==
  [pos |-> "", toolCall |-> "", sink |-> "", promise |-> "", plain |-> "",
   report |-> ""]

\* no accumulator is folded on its own
NoFolded ==
  [state |-> "", last |-> "", op |-> "", chunk |-> "", log |-> <<>>,
   iterationLog |-> <<>>]

\* the executor is not called
NoExecutor ==
  [pos |-> "", state |-> "", streams |-> 0, emitted |-> <<>>, last |-> "",
   event |-> "", log |-> <<>>]

\* no conversations are run side by side
NoConcurrent == [convs |-> <<>>, emitters |-> <<>>, registry |-> <<>>]

Init ==
  /\ maxIterationsCfg \in 0..MaxConfigIterations
  /\ hasMcpService \in BOOLEAN
  /\ pc = "loop"
  /\ iteration = 0
  /\ streamState = initializeStreamState("", "", "{}")
  /\ previousResponseId = ""
  /\ inputItems = <<MessageItem("user", "Hi")>>
  /\ streamParams = [instructions |-> "Be brief.", previous_response_id |-> "",
                     tool_choice |-> "", tools |-> hasMcpService,
                     input |-> <<MessageItem("user", "Hi")>>]
  /\ allToolCalls = <<>>
  /\ chunks = <<>>
  /\ promises = <<>>
  /\ invoked = <<>>
  /\ settled = <<>>
  /\ sink = <<>>
  /\ textChars = 0
  /\ reasoningChars = 0
  /\ opened = <<>>
  /\ thrown = ""
  /\ result = NoResult
  /\ callback = "running"
  /\ emitter = NoEmitter
  /\ traced = NoTraced
  /\ folded = NoFolded
  /\ concurrent = NoConcurrent
  /\ executor = NoExecutor

\* the loop head to the start of the fold: iteration++, prepareIteration,
\* createStream, and processStream's reset of the per-iteration fields
OpenStream ==
  /\ pc = "loop"
  /\ LoopGuard(iteration, maxIterations)
  /\ iteration' = iteration + 1
  /\ streamParams' = prepareIteration(streamParams, inputItems, iteration + 1,
                                       previousResponseId)
  /\ \E script \in ScriptsAt(iteration + 1) :
       /\ chunks' = EventsOf(script, iteration + 1)
       /\ opened' = Append(opened, script)
  /\ streamState' = initializeStreamState(streamState.fullText, streamState.reasoning,
                                          streamState.usage)
  /\ pc' = "streaming"
  /\ UNCHANGED <<callback, unitVars, maxIterationsCfg, hasMcpService, previousResponseId, inputItems,
                 allToolCalls, promises, invoked, settled, sink, textChars,
                 reasoningChars, thrown, result>>

\* openai.responses.create rejects: the loop has no catch, the call rejects
CreateStreamThrows ==
  /\ pc = "loop"
  /\ LoopGuard(iteration, maxIterations)
  /\ iteration + 1 <= RichIterations
  /\ iteration' = iteration + 1
  /\ streamParams' = prepareIteration(streamParams, inputItems, iteration + 1,
                                       previousResponseId)
  /\ pc' = "rejected"
  /\ thrown' = "TransportError"
  /\ UNCHANGED <<callback, unitVars, maxIterationsCfg, hasMcpService, streamState, previousResponseId,
                 inputItems, allToolCalls, chunks, promises, invoked, settled, sink,
                 textChars, reasoningChars, opened, result>>

\* the loop ends because the iteration limit is reached
MaxIterationsReached ==
  /\ pc = "loop"
  /\ ~LoopGuard(iteration, maxIterations)
  /\ pc' = "returned"
  /\ result' = ConversationResult(streamState, allToolCalls)
  /\ UNCHANGED <<callback, unitVars, maxIterationsCfg, hasMcpService, iteration, streamState,
                 previousResponseId, inputItems, streamParams, allToolCalls, chunks,
                 promises, invoked, settled, sink, textChars, reasoningChars, opened,
                 thrown>>

\* one turn of processStream's for-await loop
ProcessChunk ==
  /\ pc = "streaming"
  /\ chunks # <<>>
  /\ LET new == processStreamChunk(Head(chunks), streamState)
         newChars == Len(new.fullText) - Len(streamState.fullText)
         newReasoningChars == Len(new.reasoning) - Len(streamState.reasoning)
         t == IF newChars > 0
              THEN EmitIfNeeded(textChars, newChars, TEXT_EMIT_INTERVAL)
              ELSE [count |-> textChars, emits |-> FALSE]
         r == IF newReasoningChars > 0
              THEN EmitIfNeeded(reasoningChars, newReasoningChars,
                                REASONING_EMIT_INTERVAL)
              ELSE [count |-> reasoningChars, emits |-> FALSE]
     IN /\ streamState' = new
        /\ textChars' = t.count
        /\ reasoningChars' = r.count
        /\ sink' = sink
                     \o (IF t.emits THEN <<ChunkPayload(EmittedText(new))>> ELSE <<>>)
                     \o (IF r.emits THEN <<ReasoningPayload(new.reasoning)>> ELSE <<>>)
  /\ chunks' = Tail(chunks)
  /\ UNCHANGED <<callback, unitVars, maxIterationsCfg, hasMcpService, pc, iteration, previousResponseId,
                 inputItems, streamParams, allToolCalls, promises, invoked, settled,
                 opened, thrown, result>>

\* the stream's iterator throws in place of its next event (a dropped connection)
StreamThrows ==
  /\ pc = "streaming"
  /\ chunks # <<>>
  /\ iteration <= RichIterations
  /\ pc' = "rejected"
  /\ thrown' = "TransportError"
  /\ UNCHANGED <<callback, unitVars, maxIterationsCfg, hasMcpService, iteration, streamState,
                 previousResponseId, inputItems, streamParams, allToolCalls, chunks,
                 promises, invoked, settled, sink, textChars, reasoningChars, opened,
                 result>>

\* the stream ended with no tool call: break, and return the result
Complete ==
  /\ pc = "streaming"
  /\ chunks = <<>>
  /\ ConversationComplete(streamState)
  /\ pc' = "returned"
  /\ result' = ConversationResult(streamState, allToolCalls)
  /\ UNCHANGED <<callback, unitVars, maxIterationsCfg, hasMcpService, iteration, streamState,
                 previousResponseId, inputItems, streamParams, allToolCalls, chunks,
                 promises, invoked, settled, sink, textChars, reasoningChars, opened,
                 thrown>>

\* tool calls and no mcpService: amend the instructions and continue
NoRegistry ==
  /\ pc = "streaming"
  /\ chunks = <<>>
  /\ ~ConversationComplete(streamState)
  /\ ~hasMcpService
  /\ streamParams' = [streamParams EXCEPT !.instructions = AppendDirective(@)]
  /\ pc' = "loop"
  /\ UNCHANGED <<callback, unitVars, maxIterationsCfg, hasMcpService, iteration, streamState,
                 previousResponseId, inputItems, allToolCalls, chunks, promises,
                 invoked, settled, sink, textChars, reasoningChars, opened, thrown,
                 result>>

\* (mutant) an assistant message is pushed whatever the text
PushAssistantTextAlways(items, iterationText) ==
  Append(items, MessageItem("assistant", iterationText))

\* if (streamState.iterationText) inputItems.push({ type: "message", ... })
PushAssistantText(items, iterationText) ==
  IF iterationText # ""
  THEN Append(items, MessageItem("assistant", iterationText))
  ELSE items

\* (streamParams.input is the inputItems array itself since the iteration's
\* prepareIteration, so a push onto inputItems shows in streamParams.input)
\* tool calls and an mcpService: push the assistant text, then handleToolCalls
\* up to its await: every executeToolCall is started
DispatchTools ==
  /\ pc = "streaming"
  /\ chunks = <<>>
  /\ ~ConversationComplete(streamState)
  /\ hasMcpService
  /\ inputItems' = PushAssistantText(inputItems, streamState.iterationText)
  /\ streamParams' = [streamParams EXCEPT !.input = inputItems']
  /\ promises' = executeToolCallsInParallel(streamState.toolCalls)
  /\ invoked' = invoked \o Invocations(streamState.toolCalls, 1)
  /\ pc' = "tools"
  /\ UNCHANGED <<callback, unitVars, maxIterationsCfg, hasMcpService, iteration, streamState,
                 previousResponseId, allToolCalls, chunks, settled,
                 sink, textChars, reasoningChars, opened, thrown, result>>

\* the promise of one invoked registry function settles
Settle ==
  /\ pc = "tools"
  /\ \E i \in 1..Len(promises) :
       /\ promises[i].status = "pending"
       /\ \E outcome \in OutcomesAt(iteration) :
            /\ promises' = [promises EXCEPT
                              ![i] = executeToolCallSettled(streamState.toolCalls[i],
                                                            outcome)]
            /\ settled' = Append(settled, [id |-> streamState.toolCalls[i].id,
                                           outcome |-> outcome])
  /\ UNCHANGED <<callback, unitVars, maxIterationsCfg, hasMcpService, pc, iteration, streamState,
                 previousResponseId, inputItems, streamParams, allToolCalls, chunks,
                 invoked, sink, textChars, reasoningChars, opened, thrown, result>>

AllFulfilled == \A i \in 1..Len(promises) : promises[i].status = "fulfilled"

SomeRejected == \E i \in 1..Len(promises) : promises[i].status = "rejected"

RECURSIVE Payloads(_, _)
Payloads(mcpResults, i) ==
  IF i > Len(mcpResults) THEN <<>>
  ELSE <<McpResultPayload(mcpResults[i])>> \o Payloads(mcpResults, i + 1)

\* Promise.all is fulfilled: handleToolCalls builds its result, the loop emits
\* the results and either ends (workflow MCP) or appends the tool outputs
ToolsDone ==
  /\ pc = "tools"
  /\ AllFulfilled
  /\ IF McpResultsThrow(streamState.toolCalls)
     THEN /\ pc' = "rejected"
          /\ thrown' = SyntaxError
          /\ UNCHANGED <<allToolCalls, sink, previousResponseId, inputItems, result>>
     ELSE LET mcpResults == McpResults(streamState.toolCalls, promises)
          IN /\ allToolCalls' = allToolCalls \o mcpResults
             /\ sink' = sink \o Payloads(mcpResults, 1)
             /\ thrown' = thrown
             /\ IF hasWorkflowMCP(streamState.toolCalls)
                THEN /\ pc' = "returned"
                     /\ result' = ConversationResult(streamState,
                                                     allToolCalls \o mcpResults)
                     /\ UNCHANGED <<previousResponseId, inputItems>>
                ELSE /\ pc' = "loop"
                     /\ previousResponseId' = streamState.responseId
                     /\ inputItems' = inputItems
                                        \o ToolOutputs(streamState.toolCalls, promises)
                     /\ result' = result
  /\ streamParams' = [streamParams EXCEPT !.input = inputItems']
  /\ UNCHANGED <<callback, unitVars, maxIterationsCfg, hasMcpService, iteration, streamState,
                 chunks, promises, invoked, settled, textChars,
                 reasoningChars, opened>>

\* Promise.all rejects as soon as one executeToolCall promise is rejected
ToolsRejected ==
  /\ pc = "tools"
  /\ SomeRejected
  /\ pc' = "rejected"
  /\ thrown' = TypeError
  /\ UNCHANGED <<callback, unitVars, maxIterationsCfg, hasMcpService, iteration, streamState,
                 previousResponseId, inputItems, streamParams, allToolCalls, chunks,
                 promises, invoked, settled, sink, textChars, reasoningChars, opened,
                 result>>

----------------------------------------------------------------------------
(* streaming.ts: streamCompletionCallback, from its await of the loop on *)

\* result.usage.total_tokens (undefined, which is not > 0, counts as 0)
TotalTokens(usage) ==
  CASE usage = "{total_tokens:5}" -> 5
    [] usage = "{total_tokens:7}" -> 7
    [] usage = "{total_tokens:8}" -> 8
    [] usage = "{total_tokens:12}" -> 12
    [] usage = "{total_tokens:20}" -> 20
    [] usage = "{total_tokens:30}" -> 30
    [] usage = "{total_tokens:40}" -> 40
    [] OTHER -> 0

\* { chunk: result.fullText, text: result.fullText,
\*   reasoning: result.reasoning || undefined }
FinalOutput(r) ==
  [kind |-> "final", value |-> r.fullText, name |-> "", arguments |-> "",
   result |-> "", text |-> r.fullText,
   reasoning |-> IF r.reasoning = "" THEN Undefined ELSE r.reasoning]

\* the loop returned: the usage is saved, the final output emitted and returned
EmitFinalOutput ==
  /\ callback = "running"
  /\ pc = "returned"
  /\ sink' = Append(sink, FinalOutput(result))
  /\ callback' = "returned"
  /\ UNCHANGED <<loopVars, textChars, reasoningChars, unitVars>>

\* the loop returned and the awaited saveTokenUsage rejects: the catch rethrows
SaveTokenUsageRejects ==
  /\ callback = "running"
  /\ pc = "returned"
  /\ TotalTokens(result.usage) > 0
  /\ callback' = "rejected"
  /\ UNCHANGED <<loopVars, sinkVars, unitVars>>

\* the loop rejected: the catch logs and rethrows
CallbackRejects ==
  /\ callback = "running"
  /\ pc = "rejected"
  /\ callback' = "rejected"
  /\ UNCHANGED <<loopVars, sinkVars, unitVars>>

Next ==
  \/ OpenStream
  \/ CreateStreamThrows
  \/ MaxIterationsReached
  \/ ProcessChunk
  \/ StreamThrows
  \/ Complete
  \/ NoRegistry
  \/ DispatchTools
  \/ Settle
  \/ ToolsDone
  \/ ToolsRejected
  \/ EmitFinalOutput
  \/ SaveTokenUsageRejects
  \/ CallbackRejects

Spec == Init /\ [][Next]_vars

\* runConversationLoop has been handed its configuration and has not begun
LoopNotStarted ==
  /\ maxIterationsCfg = 0
  /\ hasMcpService = TRUE
  /\ pc = "loop"
  /\ iteration = 0
  /\ streamState = initializeStreamState("", "", "{}")
  /\ previousResponseId = ""
  /\ inputItems = <<MessageItem("user", "Hi")>>
  /\ streamParams = [instructions |-> "Be brief.", previous_response_id |-> "",
                     tool_choice |-> "", tools |-> TRUE,
                     input |-> <<MessageItem("user", "Hi")>>]
  /\ allToolCalls = <<>>
  /\ chunks = <<>>
  /\ promises = <<>>
  /\ invoked = <<>>
  /\ settled = <<>>
  /\ sink = <<>>
  /\ textChars = 0
  /\ reasoningChars = 0
  /\ opened = <<>>
  /\ thrown = ""
  /\ result = NoResult
  /\ callback = "running"

----------------------------------------------------------------------------
(* mcp/toolExecution.ts: executeToolCall run with a trace context, beside   *)
(* the same call run without one                                            *)

\* what saveMCPTrace may do when called: return a promise that is fulfilled,
\* return a promise that is rejected, or throw before returning one
SinkModes == {"resolves", "rejects", "throws"}

SinkError == "SinkError"

\* the calls tried: a name with or without a registry entry, arguments that
\* parse or do not
TracedCalls ==
  {[id |-> "call_1_1", itemId |-> "fc_1", type |-> "function", name |-> n,
    arguments |-> a] : n \in ToolNames, a \in {ArgsQX, ""}}

\* executeToolCall with a traceContext, up to its first await.  With no
\* registry entry saveMCPTrace is called inside the try block: when it throws
\* the catch block is entered, where saveMCPTrace is called again and its
\* throw leaves the function
executeToolCallTraced(toolCall, sinkMode) ==
  IF sinkMode = "throws" /\ toolCall.name \notin RegistryNames
  THEN Rejected(toolCall, SinkError)
  ELSE executeToolCall(toolCall)

\* executeToolCall with a traceContext, from the await on: saveMCPTrace is
\* called on every path that is about to return a ToolResult
executeToolCallSettledTraced(toolCall, outcome, sinkMode) ==
  LET plain == executeToolCallSettled(toolCall, outcome)
  IN IF sinkMode = "throws" /\ plain.status = "fulfilled"
     THEN Rejected(toolCall, SinkError)
     ELSE plain

\* the detached promise saveMCPTrace(...).catch(...) once a run has ended:
\* none when saveMCPTrace was not reached or threw
ReportOf(promise, sinkMode) ==
  IF promise.status = "rejected" THEN "none" ELSE "pending"

TraceInit ==
  /\ LoopNotStarted
  /\ emitter = NoEmitter
  /\ folded = NoFolded
  /\ concurrent = NoConcurrent
  /\ executor = NoExecutor
  /\ \E toolCall \in TracedCalls : \E sinkMode \in SinkModes :
       traced = [NoTraced EXCEPT !.pos = "start", !.toolCall = toolCall,
                                 !.sink = sinkMode]

\* the call is made, with and without the trace context
TracedCall ==
  /\ traced.pos = "start"
  /\ LET with == executeToolCallTraced(traced.toolCall, traced.sink)
     IN traced' = [traced EXCEPT
                     !.promise = with,
                     !.plain = executeToolCall(traced.toolCall),
                     !.pos = IF with.status = "pending" THEN "awaiting" ELSE "done",
                     !.report = IF with.status = "pending" THEN "none"
                                ELSE ReportOf(with, traced.sink)]
  /\ UNCHANGED <<loopVars, sinkVars, callback, emitter, folded, concurrent, executor>>

\* the registry promise settles, the same way in both runs
TracedSettle ==
  /\ traced.pos = "awaiting"
  /\ \E outcome \in Outcomes :
       LET with == executeToolCallSettledTraced(traced.toolCall, outcome, traced.sink)
       IN traced' = [traced EXCEPT
                       !.promise = with,
                       !.plain = executeToolCallSettled(traced.toolCall, outcome),
                       !.pos = "done",
                       !.report = ReportOf(with, traced.sink)]
  /\ UNCHANGED <<loopVars, sinkVars, callback, emitter, folded, concurrent, executor>>

\* the promise saveMCPTrace returned settles, after the ToolResult was returned:
\* a rejection is logged by the catch handler
TraceReportSettles ==
  /\ traced.pos = "done"
  /\ traced.report = "pending"
  /\ traced' = [traced EXCEPT
                  !.report = IF traced.sink = "resolves" THEN "saved" ELSE "logged"]
  /\ UNCHANGED <<loopVars, sinkVars, callback, emitter, folded, concurrent, executor>>

TraceNext ==
  \/ TracedCall
  \/ TracedSettle
  \/ TraceReportSettles

TraceSpec == TraceInit /\ [][TraceNext]_vars

----------------------------------------------------------------------------
(* streaming/textEmitter.ts and streaming/reasoningEmitter.ts: one emitter  *)
(* called directly.  emitter.value is the text accumulated by its caller,   *)
(* emitter.emitted the values it has passed to emit().                      *)

\* calls made on one emitter
MaxEmitterCalls == 4

\* the newCharsCount values tried
NewCharCounts == {1, 100, 149, 150, 299, 300}

\* EMIT_INTERVAL of the emitter's class
IntervalOf(kind) ==
  IF kind = "text" THEN TEXT_EMIT_INTERVAL ELSE REASONING_EMIT_INTERVAL

\* emitFinal of the emitter's class
EmitFinalOf(kind, count, value) ==
  IF kind = "text"
  THEN TextEmitterEmitFinal(count, value)
  ELSE ReasoningEmitterEmitFinal(count, value)

EmitterInit ==
  /\ LoopNotStarted
  /\ traced = NoTraced
  /\ folded = NoFolded
  /\ concurrent = NoConcurrent
  /\ executor = NoExecutor
  /\ \E kind \in {"text", "reasoning"} : emitter = [NoEmitter EXCEPT !.kind = kind]

\* the caller folds n new characters and calls emitIfNeeded(value, n)
CallEmitIfNeeded ==
  /\ emitter.calls < MaxEmitterCalls
  /\ \E n \in NewCharCounts :
       LET value == emitter.value \o Rep("x", n)
           e == EmitIfNeeded(emitter.charsSinceLastEmit, n, IntervalOf(emitter.kind))
       IN emitter' = [emitter EXCEPT
                        !.value = value,
                        !.charsSinceLastEmit = e.count,
                        !.emitted = IF e.emits THEN Append(@, value) ELSE @,
                        !.op = "emitIfNeeded", !.arg = value, !.n = n,
                        !.calls = @ + 1]
  /\ UNCHANGED <<loopVars, sinkVars, callback, traced, folded, concurrent, executor>>

\* emitFinal(value), with the accumulated text or with an empty one
CallEmitFinal ==
  /\ emitter.calls < MaxEmitterCalls
  /\ \E value \in {emitter.value, ""} :
       LET e == EmitFinalOf(emitter.kind, emitter.charsSinceLastEmit, value)
       IN emitter' = [emitter EXCEPT
                        !.charsSinceLastEmit = e.count,
                        !.emitted = IF e.emits THEN Append(@, value) ELSE @,
                        !.op = "emitFinal", !.arg = value, !.n = 0,
                        !.calls = @ + 1]
  /\ UNCHANGED <<loopVars, sinkVars, callback, traced, folded, concurrent, executor>>

\* reset()
CallReset ==
  /\ emitter.calls < MaxEmitterCalls
  /\ emitter' = [emitter EXCEPT
                   !.charsSinceLastEmit = Reset(@).count,
                   !.op = "reset", !.arg = "", !.n = 0, !.calls = @ + 1]
  /\ UNCHANGED <<loopVars, sinkVars, callback, traced, folded, concurrent, executor>>

EmitterNext ==
  \/ CallEmitIfNeeded
  \/ CallEmitFinal
  \/ CallReset

EmitterSpec == EmitterInit /\ [][EmitterNext]_vars

----------------------------------------------------------------------------
(* streaming/streamProcessor.ts: one accumulator folded over any sequence   *)
(* of events, as processStream folds the events of its stream.  folded.log  *)
(* is every event folded, folded.iterationLog those since the last reset,   *)
(* folded.op and folded.chunk the latest step and its event, folded.last    *)
(* the accumulator before that step.                                        *)

\* events folded into one accumulator
MaxFoldedEvents == 4

\* an event the switch has a case for that does nothing, or has no case for
Inert(type) == [NoEvent EXCEPT !.type = type]

\* the events tried: text and refusal deltas, two response ids, a function
\* call, argument events whose item_id is the call's itemId, the call's id or
\* neither, a done event that also names the call, inert events of every
\* group, an event of an unknown type and an event with no type
ReducerEvents ==
  {TextDelta("a"), TextDelta("b"), RefusalDelta("no"),
   Created("resp_1"), Created("resp_2"), Completed("resp_3", "{total_tokens:5}"),
   ItemAdded("fc_1", "call_1", "search"),
   ArgsDelta("fc_1", "{\"q\":"), ArgsDelta("call_1", "x"), ArgsDelta("fc_9", "x"),
   ArgsDone("fc_1", ArgsQX),
   [ArgsDone("fc_1", "{}") EXCEPT !.name = "searchKnowledgeBase"],
   Inert("response.in_progress"), Inert("response.content_part.added"),
   Inert("response.web_search_call.searching"),
   Inert("response.output_text.annotation.added"),
   Inert("provider.future_event"), NoEvent}

ReducerInit ==
  /\ LoopNotStarted
  /\ emitter = NoEmitter
  /\ traced = NoTraced
  /\ concurrent = NoConcurrent
  /\ executor = NoExecutor
  /\ folded = [state |-> initializeStreamState("", "", "{}"),
               last |-> initializeStreamState("", "", "{}"),
               op |-> "init", chunk |-> NoEvent,
               log |-> <<>>, iterationLog |-> <<>>]

\* streamState = processStreamChunk(chunk, streamState)
FoldEvent ==
  /\ Len(folded.log) < MaxFoldedEvents
  /\ \E chunk \in ReducerEvents :
       folded' = [state |-> processStreamChunk(chunk, folded.state),
                  last |-> folded.state,
                  op |-> "fold", chunk |-> chunk,
                  log |-> Append(folded.log, chunk),
                  iterationLog |-> Append(folded.iterationLog, chunk)]
  /\ UNCHANGED <<loopVars, sinkVars, callback, emitter, traced, concurrent, executor>>

\* the next iteration begins: processStream resets the accumulator
FoldReset ==
  /\ Len(folded.log) < MaxFoldedEvents
  /\ folded.iterationLog # <<>>
  /\ folded' = [state |-> initializeStreamState(folded.state.fullText,
                                                folded.state.reasoning,
                                                folded.state.usage),
                last |-> folded.state,
                op |-> "reset", chunk |-> NoEvent,
                log |-> folded.log,
                iterationLog |-> <<>>]
  /\ UNCHANGED <<loopVars, sinkVars, callback, emitter, traced, concurrent, executor>>

ReducerNext ==
  \/ FoldEvent
  \/ FoldReset

ReducerSpec == ReducerInit /\ [][ReducerNext]_vars

----------------------------------------------------------------------------
(* Two calls of streamCompletionCallback in one process.  Each call has its  *)
(* own locals (accumulator, transcript, counters of the loop), its own       *)
(* emitters and its own sink; both invoke the functions of one registry.     *)
(* World 0 runs conversations 1 and 2 together, interleaved at their awaits; *)
(* world 1 runs conversation 1 alone and world 2 conversation 2 alone, each  *)
(* on the streams and tool outcomes its counterpart in world 0 receives.     *)

\* maxIterations of each of the two conversations
MaxPairIterations == 2

ConversationIds == {1, 2}

\* <<world, conversation>>
Runs == {<<0, 1>>, <<0, 2>>, <<1, 1>>, <<2, 2>>}

EmitterKeys == (0..2) \X ConversationIds

\* (mutant) the conversations of a world share the emitters of the first
SharedEmitterOf(world, id) == <<world, 1>>

\* const textEmitter = new TextEmitter(emit); const reasoningEmitter = ...:
\* every call constructs its own pair of emitters
EmitterOf(world, id) == <<world, id>>

\* text one character short of the text emitter's interval, and no call
NearThresholdScript ==
  Script(<<>>, <<Rep("c", TEXT_EMIT_INTERVAL - 1)>>, "", <<>>,
         Ends("{total_tokens:7}"))

PairScriptsAt(i) ==
  IF i = 1 THEN {LongToolScript, NearThresholdScript, HelloScript}
  ELSE {LongAnswerScript, DataToolScript}

PairOutcomes == {Resolve("{hits:[]}"), Reject("Error('boom')")}

\* the locals of one call before the loop's first iteration
ConvInit(id) ==
  [pc |-> "loop", iteration |-> 0,
   streamState |-> initializeStreamState("", "", "{}"),
   previousResponseId |-> "",
   inputItems |-> <<MessageItem("user", IF id = 1 THEN "Hi" ELSE "Hello")>>,
   streamParams |-> [instructions |-> "Be brief.", previous_response_id |-> "",
                     tool_choice |-> "", tools |-> TRUE,
                     input |-> <<MessageItem("user", IF id = 1 THEN "Hi" ELSE "Hello")>>],
   allToolCalls |-> <<>>, chunks |-> <<>>, promises |-> <<>>, sink |-> <<>>,
   thrown |-> "", result |-> NoResult]

\* iteration++, prepareIteration, createStream, processStream's reset
ConvOpenStream(c, script) ==
  [c EXCEPT !.iteration = @ + 1,
            !.streamParams = prepareIteration(@, c.inputItems, c.iteration + 1,
                                              c.previousResponseId),
            !.chunks = EventsOf(script, c.iteration + 1),
            !.streamState = initializeStreamState(c.streamState.fullText,
                                                  c.streamState.reasoning,
                                                  c.streamState.usage),
            !.pc = "streaming"]

\* the while condition fails: return the result
ConvMaxIterationsReached(c) ==
  [c EXCEPT !.pc = "returned",
            !.result = ConversationResult(c.streamState, c.allToolCalls)]

\* one turn of processStream's for-await loop, with the emitters e
ConvProcessChunk(c, e) ==
  LET new == processStreamChunk(Head(c.chunks), c.streamState)
      newChars == Len(new.fullText) - Len(c.streamState.fullText)
      newReasoningChars == Len(new.reasoning) - Len(c.streamState.reasoning)
      t == IF newChars > 0
           THEN EmitIfNeeded(e.text, newChars, TEXT_EMIT_INTERVAL)
           ELSE [count |-> e.text, emits |-> FALSE]
      r == IF newReasoningChars > 0
           THEN EmitIfNeeded(e.reasoning, newReasoningChars,
                             REASONING_EMIT_INTERVAL)
           ELSE [count |-> e.reasoning, emits |-> FALSE]
  IN [conv |-> [c EXCEPT
                  !.streamState = new,
                  !.chunks = Tail(@),
                  !.sink = @ \o (IF t.emits
                                 THEN <<ChunkPayload(EmittedText(new))>>
                                 ELSE <<>>)
                             \o (IF r.emits
                                 THEN <<ReasoningPayload(new.reasoning)>>
                                 ELSE <<>>)],
      emitter |-> [text |-> t.count, reasoning |-> r.count]]

\* the stream has ended: return the result, or start every executeToolCall
ConvStreamEnd(c) ==
  IF ConversationComplete(c.streamState)
  THEN [c EXCEPT !.pc = "returned",
                 !.result = ConversationResult(c.streamState, c.allToolCalls)]
  ELSE [c EXCEPT
          !.inputItems = PushAssistantText(@, c.streamState.iterationText),
          !.streamParams =
             [@ EXCEPT !.input = PushAssistantText(c.inputItems,
                                                   c.streamState.iterationText)],
          !.promises = executeToolCallsInParallel(c.streamState.toolCalls),
          !.pc = "tools"]

\* the promise of the i-th invoked registry function settles
ConvSettle(c, i, outcome) ==
  [c EXCEPT !.promises[i] = executeToolCallSettled(c.streamState.toolCalls[i],
                                                   outcome)]

\* Promise.all has settled: handleToolCalls' result is emitted and fed back
ConvToolsDone(c) ==
  IF \E i \in 1..Len(c.promises) : c.promises[i].status = "rejected"
  THEN [c EXCEPT !.pc = "rejected", !.thrown = TypeError]
  ELSE IF McpResultsThrow(c.streamState.toolCalls)
  THEN [c EXCEPT !.pc = "rejected", !.thrown = SyntaxError]
  ELSE LET mcpResults == McpResults(c.streamState.toolCalls, c.promises)
           emitted == [c EXCEPT !.allToolCalls = @ \o mcpResults,
                                !.sink = @ \o Payloads(mcpResults, 1)]
       IN IF hasWorkflowMCP(c.streamState.toolCalls)
          THEN [emitted EXCEPT
                  !.pc = "returned",
                  !.result = ConversationResult(c.streamState,
                                                c.allToolCalls \o mcpResults)]
          ELSE [emitted EXCEPT
                  !.pc = "loop",
                  !.previousResponseId = c.streamState.responseId,
                  !.inputItems = @ \o ToolOutputs(c.streamState.toolCalls,
                                                  c.promises),
                  !.streamParams =
                     [@ EXCEPT !.input =
                        c.inputItems \o ToolOutputs(c.streamState.toolCalls,
                                                    c.promises)]]

\* the loop has returned: the callback emits the final output
ConvEmitFinalOutput(c) ==
  [c EXCEPT !.sink = Append(@, FinalOutput(c.result)), !.pc = "emitted"]

PairInit ==
  /\ LoopNotStarted
  /\ emitter = NoEmitter
  /\ traced = NoTraced
  /\ folded = NoFolded
  /\ executor = NoExecutor
  /\ concurrent = [convs |-> [r \in Runs |-> ConvInit(r[2])],
                   emitters |-> [k \in EmitterKeys |->
                                   [text |-> 0, reasoning |-> 0]],
                   registry |-> [w \in 0..2 |-> <<>>]]

\* conversation id as run together with the other one
Together(id) == concurrent.convs[<<0, id>>]

\* the runs of conversation id: together with the other one, and alone
RunsOf(id) == {<<0, id>>, <<id, id>>}

\* the runs of conversation id, together and alone, have taken a step
BothRuns(id, stepped) ==
  [r \in Runs |-> IF r \in RunsOf(id) THEN stepped[r] ELSE concurrent.convs[r]]

PairOpenStream ==
  /\ \E id \in ConversationIds :
       /\ Together(id).pc = "loop"
       /\ LoopGuard(Together(id).iteration, MaxPairIterations)
       /\ \E script \in PairScriptsAt(Together(id).iteration + 1) :
            concurrent' =
              [concurrent EXCEPT
                 !.convs = BothRuns(id, [r \in RunsOf(id) |->
                                       ConvOpenStream(concurrent.convs[r], script)])]
  /\ UNCHANGED <<loopVars, sinkVars, callback, emitter, traced, folded, executor>>

PairMaxIterationsReached ==
  /\ \E id \in ConversationIds :
       /\ Together(id).pc = "loop"
       /\ ~LoopGuard(Together(id).iteration, MaxPairIterations)
       /\ concurrent' =
            [concurrent EXCEPT
               !.convs = BothRuns(id, [r \in RunsOf(id) |->
                                       ConvMaxIterationsReached(concurrent.convs[r])])]
  /\ UNCHANGED <<loopVars, sinkVars, callback, emitter, traced, folded, executor>>

\* the emitters after the runs of conversation id have folded one event:
\* each run writes the counters of the emitters it holds
EmittersAfterChunk(id) ==
  LET After(r) == ConvProcessChunk(concurrent.convs[r],
                                   concurrent.emitters[EmitterOf(r[1], r[2])])
  IN [k \in EmitterKeys |->
        IF k = EmitterOf(0, id) THEN After(<<0, id>>).emitter
        ELSE IF k = EmitterOf(id, id) THEN After(<<id, id>>).emitter
        ELSE concurrent.emitters[k]]

PairProcessChunk ==
  /\ \E id \in ConversationIds :
       /\ Together(id).pc = "streaming"
       /\ Together(id).chunks # <<>>
       /\ concurrent' =
            [concurrent EXCEPT
               !.convs =
                  [r \in Runs |->
                     IF r[2] = id
                     THEN ConvProcessChunk(
                            concurrent.convs[r],
                            concurrent.emitters[EmitterOf(r[1], r[2])]).conv
                     ELSE concurrent.convs[r]],
               !.emitters = EmittersAfterChunk(id)]
  /\ UNCHANGED <<loopVars, sinkVars, callback, emitter, traced, folded, executor>>

\* the registry functions the runs of conversation id invoke at dispatch,
\* logged in the registry of each run's world
RegistryAfterDispatch(id) ==
  LET calls == IF ConversationComplete(Together(id).streamState) THEN <<>>
               ELSE Invocations(Together(id).streamState.toolCalls, 1)
  IN [w \in 0..2 |-> IF w \in {0, id} THEN concurrent.registry[w] \o calls
                     ELSE concurrent.registry[w]]

PairStreamEnd ==
  /\ \E id \in ConversationIds :
       /\ Together(id).pc = "streaming"
       /\ Together(id).chunks = <<>>
       /\ concurrent' =
            [concurrent EXCEPT
               !.convs = BothRuns(id, [r \in RunsOf(id) |->
                                       ConvStreamEnd(concurrent.convs[r])]),
               !.registry = RegistryAfterDispatch(id)]
  /\ UNCHANGED <<loopVars, sinkVars, callback, emitter, traced, folded, executor>>

PairSettle ==
  /\ \E id \in ConversationIds :
       /\ Together(id).pc = "tools"
       /\ \E i \in 1..Len(Together(id).promises) :
            /\ Together(id).promises[i].status = "pending"
            /\ \E outcome \in PairOutcomes :
                 concurrent' =
                   [concurrent EXCEPT
                      !.convs = BothRuns(id, [r \in RunsOf(id) |->
                                       ConvSettle(concurrent.convs[r], i, outcome)])]
  /\ UNCHANGED <<loopVars, sinkVars, callback, emitter, traced, folded, executor>>

PairToolsDone ==
  /\ \E id \in ConversationIds :
       /\ Together(id).pc = "tools"
       /\ \A i \in 1..Len(Together(id).promises) :
            Together(id).promises[i].status # "pending"
       /\ concurrent' =
            [concurrent EXCEPT
               !.convs = BothRuns(id, [r \in RunsOf(id) |->
                                       ConvToolsDone(concurrent.convs[r])])]
  /\ UNCHANGED <<loopVars, sinkVars, callback, emitter, traced, folded, executor>>

PairEmitFinalOutput ==
  /\ \E id \in ConversationIds :
       /\ Together(id).pc = "returned"
       /\ concurrent' =
            [concurrent EXCEPT
               !.convs = BothRuns(id, [r \in RunsOf(id) |->
                                       ConvEmitFinalOutput(concurrent.convs[r])])]
  /\ UNCHANGED <<loopVars, sinkVars, callback, emitter, traced, folded, executor>>

PairNext ==
  \/ PairOpenStream
  \/ PairMaxIterationsReached
  \/ PairProcessChunk
  \/ PairStreamEnd
  \/ PairSettle
  \/ PairToolsDone
  \/ PairEmitFinalOutput

PairSpec == PairInit /\ [][PairNext]_vars

----------------------------------------------------------------------------
(* The node executor: OpenAIStreamExecutor.handleEvent called with a sequence *)
(* of events, each call with the state the previous call returned.           *)
(* executor.state is the node state, executor.streams the number of calls of *)
(* streamCompletionCallback, executor.emitted what was passed to emit,       *)
(* executor.last those three before the latest call, executor.event the      *)
(* event of that call and executor.log every event handled.                  *)

\* events handled by one executor
MaxExecutorEvents == 4

\* initializeState: chunk "", text "", hasStartedStreaming false (isComplete
\* and reasoning are absent)
InitialNodeState ==
  [chunk |-> "", text |-> "", reasoning |-> Undefined,
   hasStartedStreaming |-> FALSE, isComplete |-> FALSE]

\* an event: its type and whether it carries a config
ExecutorEvents ==
  [type : {"input", "config", "tick"}, config : BOOLEAN]

\* what streamCompletionCallback may do: return a final output after its
\* emits, or reject
CallbackOutcomes ==
  {[kind |-> "returns", text |-> "Hello world", reasoning |-> Undefined],
   [kind |-> "returns", text |-> "", reasoning |-> "Hm."],
   [kind |-> "rejects", text |-> "", reasoning |-> Undefined]}

\* (mutant) a configured event streams whatever the state
ShouldStreamWhenConfigured(state, event) == event.config

\* neither if (state.hasStartedStreaming) return state, nor a missing config
ShouldStream(state, event) == ~state.hasStartedStreaming /\ event.config

\* { ...updatedState, ...finalOutput.__outputs, isComplete: true }
StreamedState(state, outcome) ==
  [state EXCEPT !.hasStartedStreaming = TRUE,
                !.chunk = outcome.text,
                !.text = outcome.text,
                !.reasoning = outcome.reasoning,
                !.isComplete = TRUE]

\* what the callback passes to emit before it returns
CallbackEmits(outcome) ==
  <<[kind |-> "final", text |-> outcome.text, reasoning |-> outcome.reasoning]>>

ExecutorInit ==
  /\ LoopNotStarted
  /\ emitter = NoEmitter
  /\ traced = NoTraced
  /\ folded = NoFolded
  /\ concurrent = NoConcurrent
  /\ executor = [pos |-> "idle", state |-> InitialNodeState, streams |-> 0,
                 emitted |-> <<>>,
                 last |-> [state |-> InitialNodeState, streams |-> 0,
                           emitted |-> <<>>],
                 event |-> [type |-> "", config |-> FALSE], log |-> <<>>]

\* the snapshot kept in executor.last
Snapshot ==
  [state |-> executor.state, streams |-> executor.streams,
   emitted |-> executor.emitted]

\* handleEvent returns the state it was given
HandleEventReturnsState ==
  /\ executor.pos \in {"idle", "returned"}
  /\ Len(executor.log) < MaxExecutorEvents
  /\ \E event \in ExecutorEvents :
       /\ ~ShouldStream(executor.state, event)
       /\ executor' = [executor EXCEPT !.pos = "returned",
                                       !.last = Snapshot,
                                       !.event = event,
                                       !.log = Append(@, event)]
  /\ UNCHANGED <<loopVars, sinkVars, callback, emitter, traced, folded, concurrent>>

\* handleEvent awaits streamCompletionCallback and returns the streamed state
HandleEventStreams ==
  /\ executor.pos \in {"idle", "returned"}
  /\ Len(executor.log) < MaxExecutorEvents
  /\ \E event \in ExecutorEvents :
       /\ ShouldStream(executor.state, event)
       /\ \E outcome \in CallbackOutcomes :
            /\ outcome.kind = "returns"
            /\ executor' = [executor EXCEPT
                              !.pos = "returned",
                              !.state = StreamedState(@, outcome),
                              !.streams = @ + 1,
                              !.emitted = @ \o CallbackEmits(outcome),
                              !.last = Snapshot,
                              !.event = event,
                              !.log = Append(@, event)]
  /\ UNCHANGED <<loopVars, sinkVars, callback, emitter, traced, folded, concurrent>>

\* streamCompletionCallback rejects: handleEvent rejects and returns no state
HandleEventRejects ==
  /\ executor.pos \in {"idle", "returned"}
  /\ Len(executor.log) < MaxExecutorEvents
  /\ \E event \in ExecutorEvents :
       /\ ShouldStream(executor.state, event)
       /\ \E outcome \in CallbackOutcomes :
            /\ outcome.kind = "rejects"
            /\ executor' = [executor EXCEPT
                              !.pos = "rejected",
                              !.streams = @ + 1,
                              !.last = Snapshot,
                              !.event = event,
                              !.log = Append(@, event)]
  /\ UNCHANGED <<loopVars, sinkVars, callback, emitter, traced, folded, concurrent>>

ExecutorNext ==
  \/ HandleEventReturnsState
  \/ HandleEventStreams
  \/ HandleEventRejects

ExecutorSpec == ExecutorInit /\ [][ExecutorNext]_vars

----------------------------------------------------------------------------
(* Properties *)

Terminated == pc \in {"returned", "rejected"}

\* C1: runConversationLoop opens at most maxIterations streams (10 when none
\* is configured), whatever the streams and tools do; and when the limit is
\* reached without the conversation completing, the loop stops and returns
\* the accumulated fullText and usage as a normal result, without throwing.
C1_BoundedIterations ==
  /\ [](Len(opened) <= (IF maxIterationsCfg = 0 THEN 10 ELSE maxIterationsCfg))
  /\ [](iteration <= (IF maxIterationsCfg = 0 THEN 10 ELSE maxIterationsCfg))
  /\ [][(pc = "loop"
         /\ iteration >= (IF maxIterationsCfg = 0 THEN 10 ELSE maxIterationsCfg))
        => /\ pc' = "returned"
           /\ thrown' = ""
           /\ opened' = opened
           /\ result'.fullText = streamState.fullText
           /\ result'.usage = streamState.usage
           /\ result'.toolCalls.list = allToolCalls]_vars

\* every one of 10 iterations asked for a data tool, the registry answered,
\* and the loop returned after the tenth
C1_Witness ==
  /\ pc = "returned"
  /\ thrown = ""
  /\ maxIterationsCfg = 0
  /\ hasMcpService
  /\ Len(opened) = 10
  /\ \A i \in 1..Len(opened) : opened[i] = DataToolScript
  /\ Len(result.toolCalls.list) = 10
  /\ result.usage = "{total_tokens:20}"

\* C2: when an iteration's stream ends with no pending tool call the loop
\* returns and opens no further stream; the single stream "Hel", "lo ",
\* "world", completed with usage {total_tokens: 12}, yields fullText
\* "Hello world", finishReason "completed", that usage and no toolCalls.
C2_CompletesWithoutToolCalls ==
  /\ [][(pc = "streaming" /\ chunks = <<>> /\ Len(streamState.toolCalls) = 0)
        => /\ pc' = "returned"
           /\ opened' = opened
           /\ result'.fullText = streamState.fullText]_vars
  /\ [][~Terminated]_loopVars
  /\ []((pc = "returned" /\ opened = <<HelloScript>>)
        => result = [fullText |-> "Hello world", reasoning |-> "",
                     usage |-> "{total_tokens:12}", finishReason |-> "completed",
                     toolCalls |-> [defined |-> FALSE, list |-> <<>>]])

C2_Witness ==
  /\ pc = "returned"
  /\ ~hasMcpService
  /\ opened = <<HelloScript>>
  /\ result.fullText = "Hello world"

\* iteration 1 asked for one call of tool n with arguments {"q":"x"} and the
\* registry function resolved with {hits: []}
OneCallAnswered(n) ==
  /\ hasMcpService
  /\ Len(opened) >= 1
  /\ opened[1] = ToolScript(<<>>, <<Call(n, "valid")>>)
  /\ Len(settled) >= 1
  /\ settled[1] = [id |-> "call_1_1", outcome |-> Resolve("{hits:[]}")]

C4_NoRegistryContinues ==
  /\ [][(pc = "streaming" /\ chunks = <<>> /\ Len(streamState.toolCalls) > 0
         /\ ~hasMcpService)
        => /\ pc' = "loop"
           /\ iteration' = iteration
           /\ inputItems' = inputItems
           /\ invoked' = invoked
           /\ sink' = sink
           /\ allToolCalls' = allToolCalls
           /\ streamParams'.instructions =
                streamParams.instructions \o "\n\nTools unavailable. Answer directly."]_vars
  /\ [][(pc = "loop" /\ pc' = "streaming")
        => /\ iteration' = iteration + 1
           /\ inputItems' = inputItems
           /\ streamParams'.instructions = streamParams.instructions]_vars
  /\ [](~hasMcpService
        => /\ invoked = <<>>
           /\ \A j \in 1..Len(sink) : sink[j].kind # "mcpResult"
           /\ (pc = "returned" => ~result.toolCalls.defined))

\* iteration 2 is running after a tool call was requested without a registry
C4_Witness ==
  /\ ~hasMcpService
  /\ pc = "streaming"
  /\ iteration = 2
  /\ opened[1].calls # <<>>
  /\ inputItems = <<MessageItem("user", "Hi")>>
  /\ streamParams.instructions = "Be brief.\n\nTools unavailable. Answer directly."

C7_MalformedArgumentsDegrade ==
  /\ pc = "tools"
       => \A i \in 1..Len(streamState.toolCalls) :
            (JSONparse(streamState.toolCalls[i].arguments) = SyntaxError
             /\ streamState.toolCalls[i].name \in RegistryNames)
              => \E k \in 1..Len(invoked) :
                   invoked[k] = [id |-> streamState.toolCalls[i].id,
                                 name |-> streamState.toolCalls[i].name,
                                 input |-> "{}"]
  /\ (\E k \in 1..Len(invoked) : invoked[k].input = "{}") => thrown # "SyntaxError"

\* C8: a batch of N calls always ends with N results, result i carrying
\* calls[i].id whatever the order of completion, and the settling of one call
\* (a throw included) leaves the results of the others as they are.
C8_ResultsPositional ==
  /\ [](pc = "tools"
        => /\ Len(promises) = Len(streamState.toolCalls)
           /\ \A i \in 1..Len(promises) :
                promises[i].tool_call_id = streamState.toolCalls[i].id)
  /\ [][(pc = "tools" /\ pc' = "tools")
        => \A i \in 1..Len(promises) :
             promises[i].status # "pending" => promises'[i] = promises[i]]_vars
  /\ [][(pc = "tools" /\ pc' # "tools")
        => \A i \in 1..Len(promises) : promises[i].status = "fulfilled"]_vars

\* C9: executeToolCallsInParallel never rejects: however a registry function
\* throws or rejects, its call's promise is fulfilled with a JSON object text
\* and the batch resolves.
C9_BatchNeverRejects ==
  /\ \A i \in 1..Len(promises) :
       /\ promises[i].status # "rejected"
       /\ promises[i].status = "fulfilled"
            => (\A k \in 1..Len(settled) :
                  (settled[k].id = promises[i].tool_call_id
                   /\ settled[k].outcome.kind = "reject")
                    => JSONparse(promises[i].content)
                         \in {"{error:'boom'}", "{}"})
  /\ thrown # "TypeError"

\* C10: within a batch every call's registry function is invoked before the
\* loop awaits the results, and the loop resumes only after every call of the
\* batch has settled.
C10_LaunchedTogetherJoinedTogether ==
  /\ [](pc = "tools"
        => \A i \in 1..Len(streamState.toolCalls) :
             streamState.toolCalls[i].name \in RegistryNames
               => \E k \in 1..Len(invoked) :
                    invoked[k].id = streamState.toolCalls[i].id)
  /\ [][(pc = "tools" /\ pc' # "tools")
        => \A i \in 1..Len(promises) : promises[i].status # "pending"]_vars

\* C11: when the loop leaves a batch of tool calls, one mcpResult payload per
\* call has been pushed to the sink, in the order of the calls whatever the
\* order in which the tools completed, and no stream was opened meanwhile.
C11_ResultsEmittedInCallOrder ==
  [][(pc = "tools" /\ pc' # "tools")
     => /\ Len(sink') = Len(sink) + Len(streamState.toolCalls)
        /\ \A i \in 1..Len(streamState.toolCalls) :
             /\ sink'[Len(sink) + i].kind = "mcpResult"
             /\ sink'[Len(sink) + i].name = streamState.toolCalls[i].name
        /\ opened' = opened]_vars

\* C12: the content of every ToolResult the executor returns is a JSON text,
\* whatever the registry function returned (nothing included) or threw.
C12_ContentIsJsonText ==
  \A i \in 1..Len(promises) :
    promises[i].status = "fulfilled"
      => /\ promises[i].content # "undefined"
         /\ JSONparse(promises[i].content) # "SyntaxError"

\* C13: the ToolResult of a call made with a trace context is the one the
\* same call yields without a trace context, whatever the trace sink does,
\* and it is returned without waiting for the trace report.
C13_TraceNeverAffectsResult ==
  traced.pos = "done"
    => /\ traced.promise = traced.plain
       /\ traced.report \in {"none", "pending", "saved", "logged"}

\* C14: when the loop has returned and some iteration's stream delivered an
\* error event or a response.failed event, the result's finishReason is "error".
C14_ErrorEventSurfaced ==
  (pc = "returned"
   /\ \E i \in 1..Len(opened) : \E j \in 1..Len(opened[i].ends) :
        opened[i].ends[j].type \in {"error", "response.failed"})
    => result.finishReason = "error"

\* C15: runConversationLoop rejects exactly when opening or iterating a stream
\* throws, and then there is no result and the callback rejects without the
\* final payload; in every other case the loop ends with a result.
C15_RejectsOnlyOnTransportFailure ==
  /\ pc = "rejected" => thrown = "TransportError"
  /\ thrown = "TransportError" => (pc = "rejected" /\ result = NoResult)
  /\ (pc = "rejected" /\ callback # "running")
       => /\ callback = "rejected"
          /\ \A j \in 1..Len(sink) : sink[j].kind # "final"

\* C16: a response.completed event that carries a usage payload makes usage
\* that payload exactly, one that carries none leaves usage as it was, and
\* nothing else changes usage: after two completed events with different
\* payloads, in one iteration or in two successive ones, usage is the second.
C16_UsageReplaced ==
  /\ [][(pc = "streaming" /\ pc' = "streaming" /\ chunks' # chunks
         /\ Head(chunks).type = "response.completed")
        => streamState'.usage = (IF Head(chunks).usage # ""
                                 THEN Head(chunks).usage
                                 ELSE streamState.usage)]_vars
  /\ [][streamState'.usage # streamState.usage
        => /\ pc = "streaming" /\ chunks' # chunks
           /\ Head(chunks).type = "response.completed"
           /\ streamState'.usage = Head(chunks).usage]_vars
  /\ []((pc = "returned" /\ opened = <<TwoUsagesScript>>)
        => result.usage = "{total_tokens:7}")
  /\ []((pc = "returned" /\ opened = <<UsageThenNoneScript>>)
        => result.usage = "{total_tokens:5}")
  /\ []((pc = "returned" /\ opened = <<DataToolScript, NoResultsScript>>)
        => result.usage = "{total_tokens:30}")
  /\ []((pc = "returned" /\ opened = <<DataToolScript, NoUsageScript>>)
        => result.usage = "{total_tokens:20}")

\* two completed events with different usage were folded in one iteration
C16_Witness ==
  /\ pc = "returned"
  /\ opened = <<TwoUsagesScript>>
  /\ result.usage = "{total_tokens:7}"
  /\ result.finishReason = "completed"

\* whether a is a prefix of b
IsPrefix(a, b) == Len(a) <= Len(b) /\ SubSeq(b, 1, Len(a)) = a

\* C17: fullText only grows: in every step, within an iteration or from one
\* iteration to the next, the old fullText is a prefix of the new one, and
\* the result carries the text so accumulated.
C17_FullTextOnlyGrows ==
  /\ [][IsPrefix(streamState.fullText, streamState'.fullText)]_vars
  /\ [](pc = "returned" => result.fullText = streamState.fullText)

\* the text of iteration 2 was appended to the text of iteration 1
C17_Witness ==
  /\ pc = "returned"
  /\ Len(opened) = 2
  /\ opened[1].deltas = <<"Let me check.">>
  /\ opened[2] = NoResultsScript
  /\ result.fullText = "Let me check.No results."

C19_EmitFinalFlushesOnce ==
  /\ [][(emitter'.op = "emitFinal" /\ emitter'.calls # emitter.calls)
        => IF emitter.charsSinceLastEmit > 0
           THEN /\ emitter'.emitted = Append(emitter.emitted, emitter'.arg)
                /\ emitter'.charsSinceLastEmit = 0
           ELSE /\ emitter'.emitted = emitter.emitted
                /\ emitter'.charsSinceLastEmit = 0]_vars
  /\ [][(emitter'.op = "reset" /\ emitter'.calls # emitter.calls)
        => /\ emitter'.emitted = emitter.emitted
           /\ emitter'.charsSinceLastEmit = 0]_vars

\* C20: the text payloads in the sink are prefix-ordered, each a prefix of
\* every later one and of the text folded so far, across iterations, and so
\* are the reasoning payloads.
C20_EmissionFollowsFoldOrder ==
  \A k \in 1..Len(sink) :
    /\ sink[k].kind \in {"chunk", "final"}
         => /\ IsPrefix(sink[k].value, streamState.fullText)
            /\ \A j \in 1..(k - 1) :
                 sink[j].kind = "chunk" => IsPrefix(sink[j].value, sink[k].value)
    /\ sink[k].kind = "reasoning"
         => /\ IsPrefix(sink[k].value, streamState.reasoning)
            /\ \A j \in 1..(k - 1) :
                 sink[j].kind = "reasoning" => IsPrefix(sink[j].value, sink[k].value)

\* text and reasoning were emitted in iteration 1 and again in iteration 2
C20_Witness ==
  /\ iteration = 2
  /\ \E j, k \in 1..Len(sink) :
       /\ j < k
       /\ sink[j].kind = "chunk" /\ Len(sink[j].value) = 300
       /\ sink[k].kind = "chunk" /\ Len(sink[k].value) = 604
  /\ \E j, k \in 1..Len(sink) :
       /\ j < k
       /\ sink[j].kind = "reasoning" /\ Len(sink[j].value) = 150
       /\ sink[k].kind = "reasoning" /\ Len(sink[k].value) = 303

\* C21: when the loop has returned (completed or stopped at the iteration
\* limit) and the callback has settled, the sink holds exactly one final
\* payload, it is the last payload, and its chunk and text are the whole
\* fullText of the result.
C21_FinalPayloadEmitted ==
  (pc = "returned" /\ callback # "running")
    => /\ sink # <<>>
       /\ sink[Len(sink)].kind = "final"
       /\ sink[Len(sink)].value = result.fullText
       /\ sink[Len(sink)].text = result.fullText
       /\ Cardinality({k \in 1..Len(sink) : sink[k].kind = "final"}) = 1

\* the calls of the scripts opened so far, in iteration then call order
RECURSIVE CallsOpened(_)
CallsOpened(scripts) ==
  IF scripts = <<>> THEN <<>>
  ELSE CallsOpened(SubSeq(scripts, 1, Len(scripts) - 1))
         \o [k \in 1..Len(scripts[Len(scripts)].calls) |->
               [name |-> scripts[Len(scripts)].calls[k].name,
                id |-> CallIdOf(Len(scripts), k)]]

\* C22: the toolCalls of the returned result has one entry (name, parsed
\* arguments, parsed result) for every tool call handed to the executor in any
\* iteration, in iteration then call order, and is undefined exactly when no
\* tool call was executed.
C22_ToolCallsFlatInOrder ==
  pc = "returned"
    => LET executed == IF hasMcpService THEN CallsOpened(opened) ELSE <<>>
           list == result.toolCalls.list
       IN /\ Len(list) = Len(executed)
          /\ \A p \in 1..Len(list) :
               /\ list[p].name = executed[p].name
               /\ list[p].arguments = JSONparse(ArgsQX)
               /\ IF executed[p].name \in RegistryNames
                  THEN \E q \in 1..Len(settled) :
                         /\ settled[q].id = executed[p].id
                         /\ list[p].result =
                              CASE settled[q].outcome = Resolve("{hits:[]}")
                                     -> "{hits:[]}"
                                [] settled[q].outcome = Reject("Error('boom')")
                                     -> "{error:'boom'}"
                                [] OTHER -> "{}"
                  ELSE list[p].result = "{error:'Tool not found'}"
          /\ result.toolCalls.defined <=> executed # <<>>
          /\ ~result.toolCalls.defined => list = <<>>

\* the result lists the failed call of iteration 1, then the call of
\* iteration 2
C22_Witness ==
  /\ pc = "returned"
  /\ Len(opened) >= 2
  /\ opened[1] = DataToolScript
  /\ opened[2] = DataToolScript
  /\ result.toolCalls.defined
  /\ Len(result.toolCalls.list) = 2
  /\ result.toolCalls.list[1].result = "{error:'boom'}"
  /\ result.toolCalls.list[2].result = "{hits:[]}"

\* the result of a conversation in which no tool call was executed
C22_WitnessAbsent ==
  /\ pc = "returned"
  /\ opened = <<HelloScript>>
  /\ ~result.toolCalls.defined

C23_WitnessFinished ==
  /\ concurrent.convs # <<>>
  /\ concurrent.convs[<<0, 1>>].pc = "emitted"
  /\ concurrent.convs[<<0, 2>>].pc = "emitted"
  /\ Len(concurrent.convs[<<0, 1>>].sink) >= 4
  /\ Len(concurrent.convs[<<0, 2>>].sink) >= 4
  /\ concurrent.convs[<<0, 1>>].sink # concurrent.convs[<<0, 2>>].sink
  /\ Len(concurrent.registry[0]) = 2


\* the concatenation of the deltas of the text-delta events of a log
RECURSIVE TextOf(_)
TextOf(log) ==
  IF log = <<>> THEN ""
  ELSE TextOf(SubSeq(log, 1, Len(log) - 1))
         \o (IF log[Len(log)].type = "response.output_text.delta"
             THEN log[Len(log)].delta ELSE "")

\* whether a log holds a refusal event
HasRefusal(log) ==
  \E k \in 1..Len(log) :
    log[k].type \in {"response.refusal.delta", "response.refusal.done"}

\* C24: after folding any sequence of events without refusals, fullText is
\* the concatenation of all text deltas in arrival order; iterationText is
\* the concatenation of those since the last reset, so the two are equal
\* when no reset occurred.
C24_FullTextIsConcatenation ==
  folded.op # ""
    => /\ ~HasRefusal(folded.log) => folded.state.fullText = TextOf(folded.log)
       /\ folded.state.iterationText = TextOf(folded.iterationLog)
       /\ (~HasRefusal(folded.log) /\ folded.iterationLog = folded.log)
            => folded.state.iterationText = folded.state.fullText

\* the deltas "a", "b", "a" were folded in that order, around another event
C24_Witness ==
  /\ folded.op = "fold"
  /\ Len(folded.log) = 4
  /\ folded.log[1] = TextDelta("a")
  /\ folded.log[2] = TextDelta("b")
  /\ folded.log[4] = TextDelta("a")
  /\ folded.iterationLog = folded.log
  /\ folded.state.fullText = "aba"
  /\ folded.state.iterationText = "aba"

\* C25: the step that starts an iteration leaves iterationText, toolCalls
\* and outputItems empty and carries fullText, reasoning and usage over
\* unchanged from the end of the previous iteration.
C25_IterationStartsClean ==
  [][(pc = "loop" /\ pc' = "streaming")
       => /\ streamState'.iterationText = ""
          /\ streamState'.toolCalls = <<>>
          /\ streamState'.outputItems = <<>>
          /\ streamState'.fullText = streamState.fullText
          /\ streamState'.reasoning = streamState.reasoning
          /\ streamState'.usage = streamState.usage]_vars

\* iteration 2 has started and no event of its stream is folded yet: the
\* text, reasoning and usage of iteration 1 are there, its call is not
C25_Witness ==
  /\ pc = "streaming"
  /\ iteration = 2
  /\ opened[1] = LongToolScript
  /\ chunks = EventsOf(opened[2], 2)
  /\ streamState.iterationText = ""
  /\ streamState.toolCalls = <<>>
  /\ streamState.outputItems = <<>>
  /\ streamState.fullText = LongText("a")
  /\ streamState.reasoning = LongReasoning("r")
  /\ streamState.usage = "{total_tokens:20}"

\* C26: the step that starts an iteration leaves the accumulator's
\* responseId as it was at the end of the previous iteration.
C26_ResponseIdRetained ==
  [][(pc = "loop" /\ pc' = "streaming")
       => streamState'.responseId = streamState.responseId]_vars

\* C27: a response.created event folded into an accumulator whose responseId
\* is already set leaves the responseId unchanged.
C27_CreatedCapturesOnlyIfUnset ==
  (/\ folded.op = "fold"
   /\ folded.chunk.type = "response.created"
   /\ folded.last.responseId # "")
    => folded.state.responseId = folded.last.responseId

\* C28: a function_call_arguments.done event for a pending call sets the
\* call's arguments to the event's arguments whatever fragments were
\* accumulated, sets the name when the event carries one, changes nothing
\* else, and folding the same event again leaves the arguments the same.
C28_ArgumentsDoneReplaces ==
  (/\ folded.op = "fold"
   /\ folded.chunk.type = "response.function_call_arguments.done")
    => LET hits == {i \in 1..Len(folded.last.toolCalls) :
                      folded.last.toolCalls[i].itemId = folded.chunk.item_id}
       IN hits # {}
            => LET i == CHOOSE h \in hits : \A j \in hits : h <= j
                   replayed == processStreamChunk(folded.chunk, folded.state)
               IN /\ folded.state.toolCalls[i].arguments = folded.chunk.arguments
                  /\ folded.state.toolCalls[i].name =
                       IF folded.chunk.name # "" THEN folded.chunk.name
                       ELSE folded.last.toolCalls[i].name
                  /\ \A j \in 1..Len(folded.last.toolCalls) :
                       j # i => folded.state.toolCalls[j] = folded.last.toolCalls[j]
                  /\ [folded.state EXCEPT !.toolCalls = <<>>]
                       = [folded.last EXCEPT !.toolCalls = <<>>]
                  /\ replayed.toolCalls[i].arguments = folded.chunk.arguments
                  /\ replayed = folded.state

\* a fragment was accumulated, the done event replaced it, and the same done
\* event was folded again
C28_Witness ==
  /\ folded.op = "fold"
  /\ folded.log = <<ItemAdded("fc_1", "call_1", "search"),
                    ArgsDelta("fc_1", "{\"q\":"),
                    ArgsDone("fc_1", ArgsQX), ArgsDone("fc_1", ArgsQX)>>
  /\ folded.state.toolCalls[1].arguments = ArgsQX

\* C29: a function_call_arguments.delta event is matched by itemId: with a
\* pending call of that itemId the first such call gets the fragment appended,
\* and with none (even when the item_id equals a call's id) the accumulator is
\* left as it was.
C29_DeltaMatchedByItemId ==
  (/\ folded.op = "fold"
   /\ folded.chunk.type = "response.function_call_arguments.delta")
    => LET hits == {i \in 1..Len(folded.last.toolCalls) :
                      folded.last.toolCalls[i].itemId = folded.chunk.item_id}
       IN IF hits = {}
          THEN folded.state = folded.last
          ELSE LET i == CHOOSE h \in hits : \A j \in hits : h <= j
               IN folded.state =
                    [folded.last EXCEPT
                       !.toolCalls[i].arguments = @ \o folded.chunk.delta]

\* a delta whose item_id is the id of the pending call, not its itemId, was
\* folded after a fragment and changed nothing
C29_Witness ==
  /\ folded.op = "fold"
  /\ folded.chunk = ArgsDelta("call_1", "x")
  /\ Len(folded.last.toolCalls) = 1
  /\ folded.last.toolCalls[1].id = "call_1"
  /\ folded.last.toolCalls[1].itemId = "fc_1"
  /\ folded.last.toolCalls[1].arguments = "{\"q\":"
  /\ folded.state = folded.last

\* C30: an event with no type, with a type the switch does not know, or of a
\* kind the switch lists and ignores (lifecycle marker, content-part boundary,
\* progress of another tool type, annotation) leaves the accumulator as it was.
C30_InertEventsLeaveStateUnchanged ==
  (/\ folded.op = "fold"
   /\ folded.chunk.type \in
        {"", "provider.future_event", "response.in_progress",
         "response.content_part.added", "response.web_search_call.searching",
         "response.output_text.annotation.added"})
    => folded.state = folded.last

\* an accumulator with text, a response id and a pending call was folded
\* over an event of an unknown type
C30_Witness ==
  /\ folded.op = "fold"
  /\ folded.chunk = Inert("provider.future_event")
  /\ folded.last.fullText = "a"
  /\ folded.last.responseId = "resp_1"
  /\ Len(folded.last.toolCalls) = 1
  /\ folded.state = folded.last

\* an event with no type was folded
C30_WitnessNoType ==
  /\ folded.op = "fold"
  /\ folded.chunk = NoEvent
  /\ folded.last.fullText = "a"
  /\ folded.state = folded.last

\* C31: folding a reasoning-summary delta appends the delta to reasoning and
\* changes no other field; folding an internal reasoning delta changes no
\* field, no emitter counter and emits nothing.
C31_OnlySummaryReasoningAccumulates ==
  [][(pc = "streaming" /\ chunks # <<>> /\ chunks' = Tail(chunks))
       => /\ Head(chunks).type = "response.reasoning_summary_text.delta"
               => streamState' = [streamState EXCEPT
                                    !.reasoning = @ \o Head(chunks).delta]
          /\ Head(chunks).type = "response.reasoning_text.delta"
               => /\ streamState' = streamState
                  /\ sink' = sink
                  /\ reasoningChars' = reasoningChars
                  /\ textChars' = textChars]_vars

\* a summary delta of 3 characters and an internal reasoning delta of 150
\* were folded: the reasoning is the summary, and nothing was emitted
C31_Witness ==
  /\ pc = "streaming"
  /\ opened = <<InternalReasoningScript>>
  /\ chunks = <<>>
  /\ streamState.reasoning = "Hm."
  /\ reasoningChars = 3
  /\ sink = <<>>

\* whether a is the end of b
IsSuffix(a, b) ==
  Len(a) <= Len(b) /\ SubSeq(b, Len(b) - Len(a) + 1, Len(b)) = a

C33_OutputsCarryCallId ==
  [][(pc = "tools" /\ pc' = "loop")
       => LET calls == opened[iteration].calls
          IN /\ Len(inputItems') = Len(inputItems) + Len(calls)
             /\ \A k \in 1..Len(calls) :
                  LET item == inputItems'[Len(inputItems) + k]
                  IN /\ item.type = "function_call_output"
                     /\ item.call_id = CallIdOf(iteration, k)
                     /\ item.call_id # ItemIdOf(k)
                     /\ item.call_id = streamState.toolCalls[k].id]_vars

\* the outputs of two calls of one iteration were appended
C33_Witness ==
  /\ pc = "loop"
  /\ iteration = 1
  /\ Len(opened[1].calls) = 2
  /\ Len(inputItems) = 3
  /\ inputItems[2].type = "function_call_output"
  /\ inputItems[2].call_id = "call_1_1"
  /\ inputItems[3].type = "function_call_output"
  /\ inputItems[3].call_id = "call_1_2"

\* C34: when tools are registered, the request of iteration 1 carries
\* tool_choice "required" and the request of every later iteration carries
\* tool_choice "auto".
C34_RequiredThenAuto ==
  (pc = "streaming" /\ streamParams.tools)
    => streamParams.tool_choice = IF iteration = 1 THEN "required" ELSE "auto"

\* C35: the request of iteration 1 carries no previous_response_id, and the
\* request of a later iteration for which the loop holds a prior response id
\* carries that id as previous_response_id and, being chained, does not carry
\* the whole transcript again: its input holds only items added since the
\* first request.
C35_ChainedInsteadOfResent ==
  pc = "streaming"
    => /\ iteration = 1 => streamParams.previous_response_id = ""
       /\ (iteration > 1 /\ previousResponseId # "")
            => /\ streamParams.previous_response_id = previousResponseId
               /\ \A j \in 1..Len(streamParams.input) :
                    streamParams.input[j] # MessageItem("user", "Hi")

\* C36: when an iteration ends with tool calls and an mcpService, the step
\* that starts the tools appends to the transcript one assistant message with
\* the iteration's text if that text is non-empty and nothing otherwise; the
\* step that feeds the results back appends only function_call_output items
\* after it, so the message precedes every output of the iteration.
C36_AssistantTextBeforeOutputs ==
  /\ [][(pc = "streaming" /\ pc' = "tools")
          => inputItems' =
               IF streamState.iterationText # ""
               THEN inputItems \o <<[type |-> "message", role |-> "assistant",
                                      content |-> streamState.iterationText,
                                      call_id |-> "", output |-> ""]>>
               ELSE inputItems]_vars
  /\ [][(pc = "tools" /\ pc' = "loop")
          => /\ Len(inputItems') >= Len(inputItems)
             /\ SubSeq(inputItems', 1, Len(inputItems)) = inputItems
             /\ \A j \in (Len(inputItems) + 1)..Len(inputItems') :
                  inputItems'[j].type = "function_call_output"]_vars
  /\ [][pc = "tools" => (pc' = "tools" => inputItems' = inputItems)]_vars

\* the text of iteration 1 was appended as an assistant message, then the
\* output of its call
C36_Witness ==
  /\ pc = "loop"
  /\ iteration = 1
  /\ Len(inputItems) = 3
  /\ inputItems[2] = MessageItem("assistant", "Let me check.")
  /\ inputItems[3].type = "function_call_output"
  /\ inputItems[3].call_id = "call_1_1"

\* the length of the last value of a kind pushed to the sink, 0 if none
LastEmittedLength(kind) ==
  LET ks == {k \in 1..Len(sink) : sink[k].kind = kind}
  IN IF ks = {} THEN 0
     ELSE Len(sink[CHOOSE k \in ks : \A j \in ks : j <= k].value)

\* C37: in the conversation, where neither reset nor emitFinal is called,
\* the text emitter's counter is always in 0..299 and equals the length of
\* fullText minus the length of the last chunk it emitted (0 if none), and the
\* reasoning emitter's counter is always in 0..149 and equals the length of
\* reasoning minus the length of the last reasoning payload it emitted, within
\* an iteration and from one iteration to the next.
C37_CounterIsUnemittedLength ==
  /\ textChars >= 0
  /\ textChars < 300
  /\ textChars = Len(streamState.fullText) - LastEmittedLength("chunk")
  /\ reasoningChars >= 0
  /\ reasoningChars < 150
  /\ reasoningChars = Len(streamState.reasoning) - LastEmittedLength("reasoning")

\* iteration 1 emitted 300 characters of text and 150 of reasoning; iteration
\* 2 has emitted 303 characters of reasoning and folded 4 more of text
C37_Witness ==
  /\ pc = "streaming"
  /\ iteration = 2
  /\ Len(streamState.fullText) = 304
  /\ LastEmittedLength("chunk") = 300
  /\ textChars = 4
  /\ Len(streamState.reasoning) = 303
  /\ LastEmittedLength("reasoning") = 303
  /\ reasoningChars = 0

\* C38: when the request of an iteration k > 1 carries a
\* previous_response_id, it is the response id captured during iteration
\* k - 1, never an id left over from an older iteration.
C38_ChainsToPreviousIteration ==
  (pc = "streaming" /\ iteration > 1 /\ streamParams.previous_response_id # "")
    => /\ ~opened[iteration - 1].anonymous
       /\ streamParams.previous_response_id = ResponseIdOf(iteration - 1)

\* how many registry invocations were made for the call with this id
InvokedCount(id) == Cardinality({j \in 1..Len(invoked) : invoked[j].id = id})

\* C39: with an mcpService, the step that starts the tools hands the executor
\* exactly the calls detected in the current iteration, each once and in
\* order, and no other step hands it anything; so the registry function of a
\* call detected in an iteration whose tools were started is invoked exactly
\* once in the whole conversation and that of any other call never; without an
\* mcpService nothing is handed over and no registry function is invoked.
C39_DispatchedExactlyOnce ==
  /\ [][(pc = "streaming" /\ pc' = "tools")
          => /\ hasMcpService
             /\ Len(promises') = Len(opened[iteration].calls)
             /\ \A k \in 1..Len(promises') :
                  promises'[k].tool_call_id = CallIdOf(iteration, k)]_vars
  /\ [][~(pc = "streaming" /\ pc' = "tools")
          => /\ Len(promises') = Len(promises)
             /\ invoked' = invoked]_vars
  /\ [](\A i \in 1..Len(opened) : \A k \in 1..Len(opened[i].calls) :
          InvokedCount(CallIdOf(i, k)) =
            IF /\ hasMcpService
               /\ opened[i].calls[k].name \in RegistryNames
               /\ (i < iteration \/ pc = "tools"
                    \/ (pc \in {"returned", "rejected", "loop"} /\ promises # <<>>
                        /\ promises[1].tool_call_id = CallIdOf(i, 1)))
            THEN 1 ELSE 0)
  /\ [](~hasMcpService => (invoked = <<>> /\ promises = <<>>))

\* the calls of iterations 1 and 2 have each been invoked once
C39_Witness ==
  /\ pc = "tools"
  /\ iteration = 2
  /\ Len(invoked) = 2
  /\ invoked[1].id = "call_1_1"
  /\ invoked[2].id = "call_2_1"
  /\ Len(promises) = 1

\* a call was detected while no mcpService is supplied, and the loop went on
C39_WitnessNoRegistry ==
  /\ ~hasMcpService
  /\ iteration = 2
  /\ Len(opened[1].calls) = 1
  /\ invoked = <<>>

\* C40: over any sequence of handleEvent calls in which each call gets the
\* state the previous call returned, streamCompletionCallback is called at
\* most once; a call whose state has hasStartedStreaming, or whose event has
\* no config, returns the state it was given, calls no stream and emits
\* nothing; and the call that streams returns a state with
\* hasStartedStreaming and isComplete both true.
C40_StreamsAtMostOnce ==
  executor.pos # ""
    => /\ executor.streams <= 1
       /\ (/\ executor.pos = "returned"
           /\ (executor.last.state.hasStartedStreaming \/ ~executor.event.config))
            => /\ executor.state = executor.last.state
               /\ executor.streams = executor.last.streams
               /\ executor.emitted = executor.last.emitted
       /\ (executor.pos = "returned" /\ executor.streams > executor.last.streams)
            => /\ executor.state.hasStartedStreaming
               /\ executor.state.isComplete

\* an event without config, the event that streamed, and two further
\* configured events were handled
C40_Witness ==
  /\ executor.pos = "returned"
  /\ Len(executor.log) = 4
  /\ ~executor.log[1].config
  /\ executor.log[2].config
  /\ executor.log[3].config
  /\ executor.log[4].config
  /\ executor.streams = 1
  /\ Len(executor.emitted) = 1
  /\ executor.state.text = "Hello world"
  /\ executor.state.isComplete

====
